---- MODULE Spec2Model ----
(***************************************************************************)
(* Model of the market-data server of src/server/src/main.rs: the shared   *)
(* Frequency Control (sleep_ms), the fan-out hub (a tokio broadcast        *)
(* channel, tx), the four simulated generators and the per-connection      *)
(* session handler ws_connection.                                          *)
(***************************************************************************)
EXTENDS Integers, Sequences, FiniteSets, TLC

VARIABLES
    sleep_ms,   \* AppState.sleep_ms, the Frequency Control
    tx,         \* the broadcast channel: tail (values sent so far) and the
                \* retained values, oldest first
    published,  \* history: every value sent to the hub, in order
    sessions,   \* per subscriber: status of its ws_connection, the cursor
                \* next of its rx, and as history the hub position at its
                \* subscription (subAt), the frames sent to its socket (sent)
                \* and the arm that ended it (why)
    gen,        \* per generator task: where it is in its loop (pc, idx)
                \* and the interval of the sleep it is in
    lastFreq,   \* history: the frequency_ms of the last store to sleep_ms
    use_live_data, \* AppState.use_live_data: live adapters or simulation
    adapter,    \* per live adapter task: where it is in its reconnect loop
    walk,       \* the price generator's running prices (prices), the
                \* symbol it perturbs next (idx), and as history the last
                \* and the previous price emitted per symbol and the number
                \* of ticks made
    metrics,    \* the system metrics generator's counter msg_count, and as
                \* history the last and the previous msg_rate emitted and
                \* the number of events emitted
    pingers,    \* per live adapter: its keep-alive tasks, one slot each
    client,     \* the browser client of src/app: its prices, trades and
                \* book_depth signals, its msg_count, and as history the
                \* outcome of each message event handled
    can         \* a call of CANSignal::decode: the signal, the data and,
                \* once it has returned, the result

vars == <<sleep_ms, tx, published, sessions, gen, lastFreq,
          use_live_data, adapter, walk, metrics, pingers, client, can>>

(***************************************************************************)
(* Bounds of the model.                                                    *)
(***************************************************************************)
\* Requested hub capacity; stands for the 500 of main.rs:34, scaled down so
\* that a cursor can fall behind by more than the capacity within the run.
HubCapacityRequested == 3
\* The hub accepts this many publishes in a run.
MaxPublished == 5
\* The price generator computes this many ticks in a run.
MaxTicks == 8
\* The live adapters publish this many events in a run.
MaxLivePublished == 3
\* The client handles this many message events in a run.
MaxClientFrames == 3

\* The two subscriber connections of a run.
Sessions == {1, 2}

Max(a, b) == IF a >= b THEN a ELSE b
Min(a, b) == IF a <= b THEN a ELSE b

(***************************************************************************)
(* Frequency Control                                                       *)
(***************************************************************************)
\* AtomicU64::new(50)
DefaultSleepMs == 50

\* Mutant of Clamp: the ceiling is forgotten, freq.max(10).
ClampNoCeiling(freq) == Max(freq, 10)

\* freq.max(10).min(1000) on a u64
Clamp(freq) == Min(Max(freq, 10), 1000)

\* Mutant of Store: a store never lowers the value held.
StoreIfGreater(old, new) == Max(old, new)

\* AtomicU64::store: the value held is replaced as a whole.
Store(old, new) == new

(***************************************************************************)
(* Fan-out hub: tokio::sync::broadcast::channel::<String>(500).            *)
(* The channel rounds the requested capacity up to a power of two and      *)
(* keeps the last Capacity values; a value is identified by its position   *)
(* (the number of values sent before it).                                  *)
(***************************************************************************)
RECURSIVE NextPowerOfTwoFrom(_, _)
NextPowerOfTwoFrom(p, n) == IF p >= n THEN p ELSE NextPowerOfTwoFrom(2 * p, n)

NextPowerOfTwo(n) == NextPowerOfTwoFrom(1, n)

Capacity == NextPowerOfTwo(HubCapacityRequested)

\* Mutant of Send: a full hub refuses the new value instead of evicting.
SendDropWhenFull(hub, val) ==
    IF Len(hub.buffer) = Capacity
    THEN hub
    ELSE [tail   |-> hub.tail + 1,
          buffer |-> Append(hub.buffer, [pos |-> hub.tail, val |-> val])]

\* Mutant of Send: nothing is ever evicted.
SendNoEvict(hub, val) ==
    [tail   |-> hub.tail + 1,
     buffer |-> Append(hub.buffer, [pos |-> hub.tail, val |-> val])]

\* Sender::send: stores the value at position tail, evicting the oldest one
\* when Capacity values are held; it returns without waiting for a receiver.
\* main keeps its own receiver _rx for the life of the process, so the
\* receiver count is never zero and every value sent is stored.
Send(hub, val) ==
    LET slot == [pos |-> hub.tail, val |-> val]
        all  == Append(hub.buffer, slot)
    IN  [tail   |-> hub.tail + 1,
         buffer |-> IF Len(all) > Capacity THEN Tail(all) ELSE all]

\* Mutant of Subscribe: a new cursor starts at the oldest retained value.
SubscribeOldest(hub) == hub.tail - Len(hub.buffer)

\* Sender::subscribe: a new cursor starts at the current tail.
Subscribe(hub) == hub.tail

\* The position of the oldest value a cursor can still read.
Oldest(hub) == hub.tail - Len(hub.buffer)

\* Mutant of Recv: a value read is not consumed, the cursor stays.
RecvNoAdvance(hub, next) ==
    IF next = hub.tail
    THEN [res |-> "Empty", next |-> next, val |-> <<>>]
    ELSE IF next < Oldest(hub)
    THEN [res |-> "Lagged", next |-> Oldest(hub), val |-> <<>>]
    ELSE [res |-> "Ok", next |-> next,
          val |-> hub.buffer[next - Oldest(hub) + 1].val]

\* Mutant of Recv: the retained values are read newest first.
RecvNewestFirst(hub, next) ==
    IF next = hub.tail
    THEN [res |-> "Empty", next |-> next, val |-> <<>>]
    ELSE IF next < Oldest(hub)
    THEN [res |-> "Lagged", next |-> Oldest(hub), val |-> <<>>]
    ELSE [res |-> "Ok", next |-> next + 1,
          val |-> hub.buffer[Len(hub.buffer) - (next - Oldest(hub))].val]

\* Receiver::recv for a cursor at position next: the value at next, or
\* Lagged when that value was evicted (the cursor then moves to the oldest
\* retained value), or Empty when nothing was sent since (recv pends).
Recv(hub, next) ==
    IF next = hub.tail
    THEN [res |-> "Empty", next |-> next, val |-> <<>>]
    ELSE IF next < Oldest(hub)
    THEN [res |-> "Lagged", next |-> Oldest(hub), val |-> <<>>]
    ELSE [res |-> "Ok", next |-> next + 1,
          val |-> hub.buffer[next - Oldest(hub) + 1].val]

(***************************************************************************)
(* Inbound frames of a subscriber socket and ControlMsg parsing.           *)
(***************************************************************************)
\* Integers carried as frequency_ms by the control frames of the model.
FreqValues == {-5, 0, 5, 500, 2000}

\* JSON values a frequency_ms field can hold: an integer, null, a number
\* with a fraction, a string.
JsonValues ==
    [t : {"int"}, n : FreqValues] \cup [t : {"null", "fraction", "string"}]

\* JSON texts: an object with a frequency_ms field, an object without the
\* field, a one-element array, and text that is not JSON.
TextBodies ==
    [shape : {"object"}, freq : JsonValues]
    \cup [shape : {"object_without_field", "not_json"}]
    \cup [shape : {"array"}, elem : {[t |-> "int", n |-> 5]}]

\* What socket.recv() can yield: Some(Ok(Text)), Some(Ok(Binary | Ping |
\* Pong)), Some(Ok(Close)), Some(Err(_)) and None.
Frames ==
    [kind : {"text"}, body : TextBodies]
    \cup [kind : {"binary", "ping", "pong", "close", "error", "none"}]

\* Option<u64>: None, or Some(n) held as <<n>>.
None == <<>>
Some(n) == <<n>>

\* Deserializing a JSON value as Option<u64>: null is None, an integer of
\* the u64 range is Some, anything else is an error.
ParseOptionU64(v) ==
    CASE v.t = "null" -> [ok |-> TRUE, frequency_ms |-> None]
      [] v.t = "int" /\ v.n >= 0 -> [ok |-> TRUE, frequency_ms |-> Some(v.n)]
      [] OTHER -> [ok |-> FALSE, frequency_ms |-> None]

\* serde_json::from_str::<ControlMsg>: a derived struct is read from a JSON
\* object by field name (a missing Option field is None) or from a JSON
\* array by field position.
ParseControlMsg(body) ==
    CASE body.shape = "object" -> ParseOptionU64(body.freq)
      [] body.shape = "object_without_field" -> [ok |-> TRUE, frequency_ms |-> None]
      [] body.shape = "array" -> ParseOptionU64(body.elem)
      [] OTHER -> [ok |-> FALSE, frequency_ms |-> None]

(***************************************************************************)
(* Simulated generators.                                                   *)
(***************************************************************************)
Generators == {"price", "book", "trade", "system"}

PriceSymbols == <<"BTC/USD", "ETH/USD", "SOL/USD", "AAPL", "TSLA">>
BookSymbols  == <<"BTC/USD", "ETH/USD">>
TradeSymbols == <<"BTC/USD", "ETH/USD", "SOL/USD">>

\* Mutant of EventsPerCycle: every generator sends one event a cycle.
EventsPerCycleOne(g) == 1

\* Events a generator sends per cycle.
EventsPerCycle(g) ==
    CASE g = "price" -> Len(PriceSymbols)
      [] g = "book"  -> Len(BookSymbols)
      [] OTHER       -> 1

\* Mutant of PriceInterval: the multiplier and floor of the book generator.
PriceIntervalAsBook(f) == Max(f * 2, 50)

\* freq_ms.load(Relaxed).max(10)
PriceInterval(f) == Max(f, 10)
\* (freq_book.load(Relaxed) * 2).max(50)
BookInterval(f) == Max(f * 2, 50)
\* Mutant of TradeInterval: the floor is left out.
TradeIntervalNoFloor(f) == f * 3

\* (freq_trade.load(Relaxed) * 3).max(50)
TradeInterval(f) == Max(f * 3, 50)
\* Duration::from_secs(1)
SystemInterval == 1000

Interval(g, f) ==
    CASE g = "price" -> PriceInterval(f)
      [] g = "book"  -> BookInterval(f)
      [] g = "trade" -> TradeInterval(f)
      [] OTHER       -> SystemInterval

\* serde_json::to_string of an event struct: a JSON object whose fields are
\* the struct's, the field t under the name "type" (#[serde(rename)]).  Of
\* the payload the model keeps the symbol.
Serialize(ev) == [type |-> ev.t, symbol |-> ev.symbol]

\* Levels per side of a book update: for i in 0..5.
BookLevels == 5

\* let mid = if *symbol == "BTC/USD" { 45000.0 } else { 2500.0 }
Mid(symbol) == IF symbol = "BTC/USD" THEN 45000 ELSE 2500

\* mid - (i as f64) * mid * 0.0001, in hundredths
BidPrice(mid, i) == mid * 100 - (i * mid) \div 100

\* Mutant of AskPrice: the offset is taken off the mid, as for a bid.
AskPriceAsBid(mid, i) == mid * 100 - (i * mid) \div 100

\* mid + (i as f64) * mid * 0.0001, in hundredths
AskPrice(mid, i) == mid * 100 + (i * mid) \div 100

\* The BookUpdate the book generator builds for a symbol; of each level the
\* model keeps the price (the size is random).
BookUpdate(symbol) ==
    [t      |-> "book",
     symbol |-> symbol,
     bids   |-> [l \in 1..BookLevels |-> BidPrice(Mid(symbol), l - 1)],
     asks   |-> [l \in 1..BookLevels |-> AskPrice(Mid(symbol), l - 1)]]

\* serde_json::to_string of a BookUpdate.
SerializeBook(ev) ==
    [type |-> ev.t, symbol |-> ev.symbol, bids |-> ev.bids, asks |-> ev.asks]

\* The serialized events generator g can send as the idx-th of its cycle.
Events(g, idx) ==
    CASE g = "price" -> {Serialize([t |-> "price", symbol |-> PriceSymbols[idx]])}
      [] g = "book"  -> {SerializeBook(BookUpdate(BookSymbols[idx]))}
      [] g = "trade" -> {Serialize([t |-> "trade", symbol |-> TradeSymbols[i]]) :
                            i \in 1..Len(TradeSymbols)}
      [] OTHER       -> {Serialize([t |-> "system", symbol |-> "-"])}

\* Mutant of DeserializeMsg: a tag that is not known is read as a trade.
DeserializeMsgUnknownAsTrade(json) ==
    CASE json.type = "price"  -> [variant |-> "Price", symbol |-> json.symbol]
      [] json.type = "book"   -> [variant |-> "Book", symbol |-> json.symbol]
      [] json.type = "system" -> [variant |-> "System", symbol |-> "-"]
      [] OTHER                -> [variant |-> "Trade", symbol |-> "-"]

\* The subscriber's serde_json::from_str::<Msg>: an internally tagged enum,
\* the variant chosen by the field "type", any other tag read as Other.
DeserializeMsg(json) ==
    CASE json.type = "price"  -> [variant |-> "Price", symbol |-> json.symbol]
      [] json.type = "trade"  -> [variant |-> "Trade", symbol |-> json.symbol]
      [] json.type = "book"   -> [variant |-> "Book", symbol |-> json.symbol]
      [] json.type = "system" -> [variant |-> "System", symbol |-> "-"]
      [] OTHER                -> [variant |-> "Other", symbol |-> "-"]

\* The running prices main gives the price generator, in units of 0.0001.
InitialPrices == <<450000000, 25000000, 1200000, 1750000, 2500000>>

\* The perturbations rng.gen_range(-0.002..0.002) draws in the model, in
\* units of 0.00001: the lower end of the range, a small step down, and
\* just below the upper end, which the range excludes.
Changes == {-200, -8, 199}

\* prices[idx] *= 1.0 + change, on a price in units of 0.0001; the product
\* price * change is split so that it stays within 32 bits.
Perturb(price, change) ==
    price + (price \div 100000) * change
          + ((price % 100000) * change) \div 100000

\* (prices[idx] * 100.0).round() / 100.0: the price to the nearest cent, in
\* cents.
RoundCents(price) == (price + 50) \div 100

\* No Price event of the symbol has been emitted.
NoPrice == -1

\* No SystemMetric event has been emitted.
NoMetric == -1

\* The symbols of the frames the client receives in the model.
ClientSymbols == {"BTC/USD", "ETH/USD"}

\* sample_max, the cap of a symbol's price series, as the page starts:
\* RwSignal::new(200usize).
SampleMax == 200

\* The keep-alive tasks an adapter has at a time in a run.
MaxKeepAlive == 2

\* The WebSocket connections the page opens in a run.
MaxConnections == 3

\* The bytes of the longest CAN data passed to decode in a run.
MaxDataLen == 3

\* No call of decode has been made.
NoCall == [pc |-> "idle"]
KeepAliveSlots == 1..MaxKeepAlive

\* Mutant of Spawned: the generators are spawned in either mode.
SpawnedAlways(g) == TRUE

\* The generator tasks main spawns: with live data only the system metrics
\* are simulated.
Spawned(g) == ~use_live_data \/ g = "system"

(***************************************************************************)
(* Live adapters of live_data.rs: one ticker stream per symbol and one     *)
(* combined trade stream.                                                  *)
(***************************************************************************)
TickerSymbols == <<"btcusdt", "ethusdt", "solusdt">>

Adapters == {TickerSymbols[i] : i \in 1..Len(TickerSymbols)} \cup {"trades"}

\* JSON values of a field of an upstream payload: absent, a string, a
\* number, a boolean, an object.
Missing == [t |-> "missing"]
Str(text) == [t |-> "str", text |-> text]
Num == [t |-> "num"]
Bool(b) == [t |-> "bool", b |-> b]
Obj(o) == [t |-> "obj", obj |-> o]

\* Value::as_str and Value::as_bool
AsStr(v) == IF v.t = "str" THEN Some(v.text) ELSE None
AsBool(v) == IF v.t = "bool" THEN Some(v.b) ELSE None

\* str::parse::<f64> on the texts of the model; an f64 is NaN or a number,
\* held in hundredths.  "NaN" parses, to NaN.
ParseF64(text) ==
    CASE text = "45000.12" -> Some([nan |-> FALSE, n |-> 4500012])
      [] text = "500"      -> Some([nan |-> FALSE, n |-> 50000])
      [] text = "0.5"      -> Some([nan |-> FALSE, n |-> 50])
      [] text = "0"        -> Some([nan |-> FALSE, n |-> 0])
      [] text = "NaN"      -> Some([nan |-> TRUE, n |-> 0])
      [] OTHER             -> None

\* data.get(key)?.as_str()?.parse::<f64>().ok()?
StrF64(v) == IF AsStr(v) = None THEN None ELSE ParseF64(AsStr(v)[1])

\* f64 as u64: NaN and negative numbers give 0, a fraction is cut off.
AsU64(f) == IF f.nan \/ f.n < 0 THEN 0 ELSE f.n \div 100

\* An f64 inside json!: a number, or null when it is not finite.
JsonF64(f) == IF f.nan THEN [t |-> "null"] ELSE [t |-> "num", n |-> f.n]

\* str::to_uppercase on the symbols of the model: lower-case and mixed-case
\* spellings of the three known symbols, one symbol that is not known, and
\* texts that are upper case already.
ToUppercase(text) ==
    CASE text \in {"btcusdt", "BtcUsdt"} -> "BTCUSDT"
      [] text \in {"ethusdt", "EthUsdt"} -> "ETHUSDT"
      [] text \in {"solusdt", "SolUsdt"} -> "SOLUSDT"
      [] text = "dogeusdt" -> "DOGEUSDT"
      [] OTHER             -> text

\* Mutant of NormalizeSymbol: the match is made on the symbol as received.
NormalizeSymbolCaseSensitive(binance_symbol) ==
    CASE binance_symbol = "BTCUSDT" -> "BTC/USD"
      [] binance_symbol = "ETHUSDT" -> "ETH/USD"
      [] binance_symbol = "SOLUSDT" -> "SOL/USD"
      [] OTHER -> ToUppercase(binance_symbol)

NormalizeSymbol(binance_symbol) ==
    CASE ToUppercase(binance_symbol) = "BTCUSDT" -> "BTC/USD"
      [] ToUppercase(binance_symbol) = "ETHUSDT" -> "ETH/USD"
      [] ToUppercase(binance_symbol) = "SOLUSDT" -> "SOL/USD"
      [] OTHER -> ToUppercase(binance_symbol)

\* Mutant of TransformBinanceTicker: a missing volume is published as 0.
TransformBinanceTickerDefaultVolume(data) ==
    IF AsStr(data.s) = None \/ StrF64(data.c) = None
    THEN None
    ELSE Some([type   |-> "price",
               symbol |-> NormalizeSymbol(AsStr(data.s)[1]),
               price  |-> JsonF64(StrF64(data.c)[1]),
               volume |-> IF StrF64(data.v) = None THEN 0
                          ELSE AsU64(StrF64(data.v)[1])])

\* transform_binance_ticker: None as soon as s, c or v is absent, is not a
\* string or, for c and v, does not parse as f64.
TransformBinanceTicker(data) ==
    IF AsStr(data.s) = None \/ StrF64(data.c) = None \/ StrF64(data.v) = None
    THEN None
    ELSE Some([type   |-> "price",
               symbol |-> NormalizeSymbol(AsStr(data.s)[1]),
               price  |-> JsonF64(StrF64(data.c)[1]),
               volume |-> AsU64(StrF64(data.v)[1])])

\* Value::get(key): the member of an object, None on any other value.
Get(v, key) == IF v.t = "obj" THEN v.obj[key] ELSE Missing

\* Mutant of Side: the flag is taken as the side of the taker.
SideNotInverted(is_buyer_maker) == IF is_buyer_maker THEN "buy" ELSE "sell"

\* if is_buyer_maker { "sell" } else { "buy" }
Side(is_buyer_maker) == IF is_buyer_maker THEN "sell" ELSE "buy"

\* The body of transform_binance_trade from the choice of trade_data on:
\* None as soon as s, p, q or m is absent or of the wrong type.
TradeOf(trade_data) ==
    IF \/ AsStr(Get(trade_data, "s")) = None
       \/ StrF64(Get(trade_data, "p")) = None
       \/ StrF64(Get(trade_data, "q")) = None
       \/ AsBool(Get(trade_data, "m")) = None
    THEN None
    ELSE Some([type   |-> "trade",
               symbol |-> NormalizeSymbol(AsStr(Get(trade_data, "s"))[1]),
               price  |-> JsonF64(StrF64(Get(trade_data, "p"))[1]),
               size   |-> JsonF64(StrF64(Get(trade_data, "q"))[1]),
               side   |-> Side(AsBool(Get(trade_data, "m"))[1])])

\* Mutant of TransformBinanceTrade: when the member "data" gives no trade,
\* the payload itself is read.
TransformBinanceTradeFallback(data) ==
    IF data.data # Missing /\ TradeOf(data.data) # None
    THEN TradeOf(data.data)
    ELSE TradeOf(Obj(data.top))

\* transform_binance_trade: the fields are read from the member "data" of
\* the payload when there is one, whatever it is, else from the payload
\* itself.
TransformBinanceTrade(data) ==
    TradeOf(IF data.data # Missing THEN data.data ELSE Obj(data.top))

\* A mixed-case spelling of the symbol of a ticker stream.
MixedCase(a) ==
    CASE a = "btcusdt" -> "BtcUsdt"
      [] a = "ethusdt" -> "EthUsdt"
      [] OTHER         -> "SolUsdt"

\* The text payloads the upstream of an adapter sends in the model.
TickerBodies(a) ==
    {[json |-> FALSE]} \cup
    [json : {TRUE},
     s : {Str(ToUppercase(a)), Str(a), Str(MixedCase(a)), Missing},
     c : {Str("45000.12"), Str("NaN"), Str("abc"), Num, Missing},
     v : {Str("500"), Missing}]

TradeObjects ==
    [s : {Str("BTCUSDT"), Str("dogeusdt"), Missing},
     p : {Str("45000.12"), Missing},
     q : {Str("0.5"), Str("0"), Str("abc"), Missing},
     m : {Bool(TRUE), Bool(FALSE), Missing}]

EmptyObject == [s |-> Missing, p |-> Missing, q |-> Missing, m |-> Missing]

\* A payload that carries trade fields of its own next to its member "data".
OuterTrade == [s |-> Str("BTCUSDT"), p |-> Str("45000.12"), q |-> Str("0"),
               m |-> Bool(TRUE)]

\* Trade payloads: text that is not JSON, a flat trade object, an object
\* with nothing but a member "data", which is a trade object or a number,
\* and OuterTrade around a member "data" that lacks the quantity, that
\* holds another trade, or that is a number.
TradeBodies ==
    {[json |-> FALSE]}
    \cup {[json |-> TRUE, top |-> o, data |-> Missing] : o \in TradeObjects}
    \cup {[json |-> TRUE, top |-> EmptyObject, data |-> d] :
             d \in {Obj(o) : o \in TradeObjects} \cup {Num}}
    \cup {[json |-> TRUE, top |-> OuterTrade, data |-> d] :
             d \in {Obj([OuterTrade EXCEPT !.q = Missing]),
                    Obj([OuterTrade EXCEPT !.q = Str("0.5"), !.m = Bool(FALSE)]),
                    Num}}

\* What read.next() can yield: Some(Ok(Text)), Some(Ok(Pong)), another
\* frame, Some(Ok(Close)), Some(Err(_)) and None.
UpstreamFrames(a) ==
    [kind : {"text"},
     body : IF a = "trades" THEN TradeBodies ELSE TickerBodies(a)]
    \cup [kind : {"pong", "ping", "close", "error", "none"}]

\* Mutant of Transformed: a close frame or a read error of the upstream is
\* published as an event.
TransformedSurfacesErrors(a, f) ==
    IF f.kind \in {"close", "error"}
    THEN Some([type |-> "error", symbol |-> "-"])
    ELSE IF f.kind # "text" \/ ~f.body.json
    THEN None
    ELSE IF a = "trades" THEN TransformBinanceTrade(f.body)
    ELSE TransformBinanceTicker(f.body)

\* What a text frame makes the adapter publish, if anything.
Transformed(a, f) ==
    IF f.kind # "text" \/ ~f.body.json
    THEN None
    ELSE IF a = "trades" THEN TransformBinanceTrade(f.body)
    ELSE TransformBinanceTicker(f.body)

(***************************************************************************)
(* Initial state: main has created the hub and the Frequency Control and   *)
(* spawned the generators or, with live data, the adapters and the system  *)
(* metrics generator; no subscriber has connected.                         *)
(***************************************************************************)
Init ==
    /\ sleep_ms = DefaultSleepMs
    /\ tx = [tail |-> 0, buffer |-> <<>>]
    /\ published = <<>>
    /\ sessions = [s \in Sessions |->
                     [status |-> "idle", rx |-> FALSE, state |-> FALSE,
                      next |-> 0, subAt |-> 0, sent |-> <<>>, why |-> "-",
                      inbox |-> <<>>]]
    /\ gen = [g \in Generators |-> [pc |-> "run", idx |-> 1, interval |-> 0]]
    /\ lastFreq = None
    /\ use_live_data \in BOOLEAN
    /\ adapter = [a \in Adapters |->
                    [pc |-> IF use_live_data THEN "connecting" ELSE "off"]]
    /\ walk = [idx |-> 1, ticks |-> 0, prices |-> InitialPrices,
               last |-> [i \in 1..Len(PriceSymbols) |-> NoPrice],
               prev |-> [i \in 1..Len(PriceSymbols) |-> NoPrice]]
    /\ metrics = [msg_count |-> 0, emitted |-> 0,
                  last |-> NoMetric, prev |-> NoMetric]
    /\ pingers = [a \in Adapters |-> [i \in KeepAliveSlots |-> "free"]]
    /\ client = [prices |-> [y \in ClientSymbols |-> 0], trades |-> 0,
                 book_depth |-> {}, msg_count |-> 0, log |-> <<>>,
                 sample_max |-> SampleMax, ws |-> 1, effect |-> FALSE]
    /\ can = NoCall

(***************************************************************************)
(* Generator steps.                                                        *)
(***************************************************************************)
\* One tx.send of the cycle's loop body; its result is discarded (let _ =).
GenSend(g) ==
    /\ Spawned(g)
    /\ gen[g].pc = "run"
    /\ gen[g].idx <= EventsPerCycle(g)
    /\ tx.tail < MaxPublished
    /\ \E ev \in Events(g, gen[g].idx) :
          /\ tx' = Send(tx, ev)
          /\ published' = Append(published, ev)
    /\ gen' = [gen EXCEPT ![g].idx = @ + 1]
    /\ UNCHANGED <<sleep_ms, sessions, lastFreq, use_live_data, adapter, walk, metrics, pingers, client, can>>

\* Mutant of GenSleep: the sleep is derived from the value the control had
\* when the task was spawned.
GenSleepLoadedOnce(g) ==
    /\ Spawned(g)
    /\ gen[g].pc = "run"
    /\ gen[g].idx > EventsPerCycle(g)
    /\ gen' = [gen EXCEPT ![g] = [pc |-> "sleep", idx |-> @.idx,
                                  interval |-> Interval(g, DefaultSleepMs)]]
    /\ UNCHANGED <<sleep_ms, tx, published, sessions, lastFreq, use_live_data, adapter, walk, metrics, pingers, client, can>>

\* The load of the Frequency Control after the loop body, and the start of
\* the sleep it gives.
GenSleep(g) ==
    /\ Spawned(g)
    /\ gen[g].pc = "run"
    /\ gen[g].idx > EventsPerCycle(g)
    /\ gen' = [gen EXCEPT ![g] = [pc |-> "sleep", idx |-> @.idx,
                                  interval |-> Interval(g, sleep_ms)]]
    /\ UNCHANGED <<sleep_ms, tx, published, sessions, lastFreq, use_live_data, adapter, walk, metrics, pingers, client, can>>

\* The sleep ends and the next cycle begins.
GenWake(g) ==
    /\ Spawned(g)
    /\ gen[g].pc = "sleep"
    /\ gen' = [gen EXCEPT ![g] = [pc |-> "run", idx |-> 1, interval |-> 0]]
    /\ UNCHANGED <<sleep_ms, tx, published, sessions, lastFreq, use_live_data, adapter, walk, metrics, pingers, client, can>>

\* The tick the price generator computes for the symbol at walk.idx, with
\* the perturbation drawn: lines 78 to 84 of its loop body.  The numbers
\* of a tick do not reach the hub of the model, whose events keep the type
\* and the symbol, so SpecPrices follows them apart from the sends.
PriceTick(change) ==
    /\ Spawned("price")
    /\ walk.ticks < MaxTicks
    /\ LET i == walk.idx
           p == Perturb(walk.prices[i], change)
       IN  walk' = [idx    |-> IF i = Len(PriceSymbols) THEN 1 ELSE i + 1,
                    ticks  |-> walk.ticks + 1,
                    prices |-> [walk.prices EXCEPT ![i] = p],
                    last   |-> [walk.last EXCEPT ![i] = RoundCents(p)],
                    prev   |-> [walk.prev EXCEPT ![i] = walk.last[i]]]
    /\ UNCHANGED <<sleep_ms, tx, published, sessions, gen, lastFreq,
                   use_live_data, adapter, metrics, pingers, client, can>>

\* The amounts rng.gen_range(50..200) draws in the model: the ends of the
\* range, which excludes 200, and a value between.
Amounts == {50, 120, 199}

\* Mutant of Accumulate: the amount drawn replaces the counter.
AccumulateReplace(msg_count, amount) == amount

\* msg_count += rng.gen_range(50..200)
Accumulate(msg_count, amount) == msg_count + amount

\* The system events sent to the hub so far.
SystemSent ==
    Cardinality({i \in 1..Len(published) : published[i].type = "system"})

\* The metric the system generator computes at the start of a cycle, with
\* the amount drawn: the loop body up to the send, which GenSend models.
\* As for the price ticks the number does not reach the hub of the model.
SystemTick(amount) ==
    /\ Spawned("system")
    /\ gen["system"].pc = "run"
    /\ gen["system"].idx = 1
    /\ metrics.emitted = SystemSent
    /\ tx.tail < MaxPublished
    /\ metrics' = [msg_count |-> Accumulate(metrics.msg_count, amount),
                   emitted   |-> metrics.emitted + 1,
                   last      |-> Accumulate(metrics.msg_count, amount),
                   prev      |-> metrics.last]
    /\ UNCHANGED <<sleep_ms, tx, published, sessions, gen, lastFreq,
                   use_live_data, adapter, walk, pingers, client, can>>

(***************************************************************************)
(* Live adapter steps: the reconnect loop of binance_ticker_stream and     *)
(* binance_trade_streams around connect_ticker_stream and                  *)
(* connect_trade_streams.                                                  *)
(***************************************************************************)
\* Mutant of AfterError: the loop is left on an error.
AfterErrorGiveUp == "stopped"

\* Err(error_msg): the error is logged and the task sleeps 5 s.
AfterError == "delay"

\* Mutant of AfterStreamEnd: the end of the stream is handled as an error.
AfterStreamEndAsError == "delay"

\* Ok(_) => {}: when the connect function returns Ok, which it does when
\* read.next() yields None, the loop calls it again at once.
AfterStreamEnd == "connecting"

\* A keep-alive task is in one slot of its adapter, which is free when the
\* task has exited.  The task is alive while its connection is read, dead
\* when the connection has ended and a ping on it fails, and orphan when
\* the read loop has left the connection on a read error and the socket,
\* which the task holds the write half of, may still take a ping.
FreeSlots(a) == {i \in KeepAliveSlots : pingers[a][i] = "free"}

\* tokio::spawn of the keep-alive loop: one more task, in the lowest free
\* slot.
SpawnKeepAlive(slots) ==
    LET i == CHOOSE j \in KeepAliveSlots :
                 /\ slots[j] = "free"
                 /\ \A k \in KeepAliveSlots : slots[k] = "free" => j <= k
    IN  [slots EXCEPT ![i] = "alive"]

\* The connect function returns: the task of its connection, if it has not
\* exited, goes on with what the connection has become.
ConnectionEnds(slots, status) ==
    [i \in KeepAliveSlots |-> IF slots[i] = "alive" THEN status ELSE slots[i]]

\* What a connection can be for its keep-alive task after the frame that
\* ended the read loop.
EndedAs(f) ==
    CASE f.kind \in {"close", "none"} -> {"dead"}
      [] f.kind = "error" -> {"dead", "orphan"}
      [] OTHER -> {"alive"}

\* Mutant of AfterPing: the task goes on after a failed send.
AfterPingKeepsOn(status, sendOk) == status

\* if write.send(Message::Ping(vec![])).await.is_err() { break; }
AfterPing(status, sendOk) == IF sendOk THEN status ELSE "free"

\* interval.tick() of a keep-alive task and the ping it sends; the send
\* fails on a dead connection and can fail on any.
PingTick(a, i, sendOk) ==
    /\ pingers[a][i] # "free"
    /\ pingers[a][i] = "dead" => ~sendOk
    /\ pingers' = [pingers EXCEPT ![a][i] = AfterPing(@, sendOk)]
    /\ UNCHANGED <<sleep_ms, tx, published, sessions, gen, lastFreq,
                   use_live_data, adapter, walk, metrics, client, can>>

\* connect_async(url): the handshake succeeds, the keep-alive task of the
\* connection is spawned and the adapter streams, or it fails and the
\* error is returned to the loop.
AdapterConnect(a) ==
    /\ adapter[a].pc = "connecting"
    /\ \E ok \in BOOLEAN :
          /\ ok => FreeSlots(a) # {}
          /\ adapter' = [adapter EXCEPT ![a].pc = IF ok THEN "streaming"
                                                  ELSE AfterError]
          /\ pingers' = IF ok THEN [pingers EXCEPT ![a] = SpawnKeepAlive(@)]
                        ELSE pingers
    /\ UNCHANGED <<sleep_ms, tx, published, sessions, gen, lastFreq,
                   use_live_data, walk, metrics, client, can>>

\* One iteration of while let Some(msg) = read.next().await.
AdapterRead(a, f) ==
    /\ adapter[a].pc = "streaming"
    /\ IF Transformed(a, f) # None
       THEN /\ tx.tail < MaxLivePublished
            /\ tx' = Send(tx, Transformed(a, f)[1])
            /\ published' = Append(published, Transformed(a, f)[1])
       ELSE UNCHANGED <<tx, published>>
    /\ adapter' = [adapter EXCEPT ![a].pc =
                     CASE f.kind \in {"close", "error"} -> AfterError
                       [] f.kind = "none" -> AfterStreamEnd
                       [] OTHER -> "streaming"]
    /\ \E status \in EndedAs(f) :
          pingers' = [pingers EXCEPT ![a] = ConnectionEnds(@, status)]
    /\ UNCHANGED <<sleep_ms, sessions, gen, lastFreq, use_live_data, walk, metrics, client, can>>

\* sleep(Duration::from_secs(5)) ends and the loop connects again.
AdapterDelayEnd(a) ==
    /\ adapter[a].pc = "delay"
    /\ adapter' = [adapter EXCEPT ![a].pc = "connecting"]
    /\ UNCHANGED <<sleep_ms, tx, published, sessions, gen, lastFreq,
                   use_live_data, walk, metrics, pingers, client, can>>

(***************************************************************************)
(* Session handler ws_connection: one select! iteration per step.          *)
(***************************************************************************)
\* Mutant of Select: the hub branch is preferred, as with biased;
SelectBiased(s, branch) ==
    branch = "hub" \/ Recv(tx, sessions[s].next).res = "Empty"

\* tokio::select! without biased; polls its branches from a random one, so
\* either branch that is ready can be the one taken.
Select(s, branch) == TRUE

\* A frame reaches the socket of the session and waits there for
\* socket.recv().
Arrive(s, f) ==
    /\ sessions[s].status = "open"
    /\ sessions[s].inbox = None
    /\ sessions' = [sessions EXCEPT ![s].inbox = Some(f)]
    /\ UNCHANGED <<sleep_ms, tx, published, gen, lastFreq, use_live_data,
                   adapter, walk, metrics, pingers, client, can>>

\* Mutant of Break: the exit of one handler ends every open session.
BreakAll(ss, s, why) ==
    [t \in Sessions |->
        IF ss[t].status = "open"
        THEN [status |-> "closed", rx |-> FALSE, state |-> FALSE,
              next |-> 0, subAt |-> 0, sent |-> <<>>, why |-> why, inbox |-> <<>>]
        ELSE ss[t]]

\* Mutant of Break: the handler is marked ended and its cursor is kept.
BreakKeepsCursor(ss, s, why) ==
    [ss EXCEPT ![s].status = "closed", ![s].why = why]

\* break: the handler returns, which drops its cursor rx and its socket;
\* why records which arm broke.
Break(ss, s, why) ==
    [ss EXCEPT ![s] = [status |-> "closed", rx |-> FALSE,
                       state |-> FALSE, next |-> 0, subAt |-> 0,
                       sent |-> <<>>, why |-> why, inbox |-> <<>>]]

\* The handlers that hold a Sender of the hub: ws_connection owns its
\* state: AppState, a clone that carries tx, until it returns.
SessionSenders == {s \in Sessions : sessions[s].state}

\* ws_handler / ws_connection entry: the upgraded socket gets its own
\* cursor from state.tx.subscribe().
Connect(s) ==
    /\ sessions[s].status = "idle"
    /\ sessions' = [sessions EXCEPT ![s] =
                      [status |-> "open", rx |-> TRUE, state |-> TRUE,
                       next |-> Subscribe(tx),
                       subAt |-> tx.tail, sent |-> <<>>, why |-> "-",
                       inbox |-> <<>>]]
    /\ UNCHANGED <<sleep_ms, tx, published, gen, lastFreq, use_live_data, adapter, walk, metrics, pingers, client, can>>

\* The branch res = rx.recv(): Ok(msg) is sent to the socket as a text
\* frame, and a failed send breaks; Err(_) breaks.
HubBranch(s) ==
    /\ sessions[s].status = "open"
    /\ LET r == Recv(tx, sessions[s].next)
       IN  /\ r.res # "Empty"
           /\ \/ /\ r.res = "Ok"
                 /\ \E sendOk \in BOOLEAN :
                       sessions' =
                         IF sendOk
                         THEN [sessions EXCEPT
                                 ![s].next = r.next,
                                 ![s].sent = Append(@, [pos |-> r.next - 1,
                                                        val |-> r.val])]
                         ELSE Break([sessions EXCEPT ![s].next = r.next],
                                    s, "send_failed")
              \/ /\ r.res = "Lagged"
                 /\ sessions' = Break([sessions EXCEPT ![s].next = r.next],
                                      s, "lagged")
    /\ UNCHANGED <<sleep_ms, tx, published, gen, lastFreq, use_live_data, adapter, walk, metrics, pingers, client, can>>

\* The value of frequency_ms a text frame makes the handler store, if any.
ControlOf(f) ==
    IF f.kind = "text" /\ ParseControlMsg(f.body).ok
    THEN ParseControlMsg(f.body).frequency_ms
    ELSE None

\* The branch maybe_in = socket.recv(): it yields the frame that waits on
\* the socket or, when none waits, the frame that arrives.
SocketBranch(s, f) ==
    /\ sessions[s].status = "open"
    /\ sessions[s].inbox \in {None, Some(f)}
    /\ IF ControlOf(f) # None
       THEN /\ sleep_ms' = Store(sleep_ms, Clamp(ControlOf(f)[1]))
            /\ lastFreq' = ControlOf(f)
       ELSE UNCHANGED <<sleep_ms, lastFreq>>
    /\ sessions' = IF f.kind \in {"close", "none"}
                   THEN Break(sessions, s, "closed")
                   ELSE [sessions EXCEPT ![s].inbox = None]
    /\ UNCHANGED <<tx, published, gen, use_live_data, adapter, walk, metrics, pingers, client, can>>

(***************************************************************************)
(* The browser client of src/app/src/lib.rs: the onmessage callback of its *)
(* WebSocket, the connect effect and the controls of the page.  The page   *)
(* starts with the effect run once and its WebSocket open.                 *)
(***************************************************************************)
\* The cap of the trade history.
TradesMax == 100

\* The JSON objects of those frames: the four known types, a type the
\* client does not know, with and without a symbol, an object without a
\* type, and a price without its fields.
ServerObjects ==
    [type : {"price", "trade", "book", "heartbeat"}, symbol : ClientSymbols]
    \cup {[type |-> "system", symbol |-> "-"], [type |-> "heartbeat"],
          [type |-> "price"]}
    \cup [symbol : ClientSymbols]

\* What e.data() of a message event can be: a string holding a JSON object,
\* a string that is not JSON, and data that is not a string.
MessageEvents ==
    [text : {TRUE}, json : {TRUE}, body : ServerObjects]
    \cup {[text |-> TRUE, json |-> FALSE], [text |-> FALSE]}

\* serde_json::from_str::<Msg>(&txt): an error when the text is not JSON,
\* has no type, or has a known type without that variant's fields.
FromStrMsg(ev) ==
    IF ~ev.json \/ "type" \notin DOMAIN ev.body THEN None
    ELSE IF ev.body.type \in {"price", "trade", "book"}
            /\ "symbol" \notin DOMAIN ev.body THEN None
    ELSE Some(DeserializeMsg(ev.body))

\* What the callback makes of an event: the variant matched, or why nothing
\* was matched.
Outcome(ev) ==
    IF ~ev.text THEN "NotText"
    ELSE IF FromStrMsg(ev) = None THEN "Err"
    ELSE FromStrMsg(ev)[1].variant

\* The callback of one message event; elapsed says whether a second has
\* passed since the rate timer was set, which it cannot have at the first
\* event.
OnMessage(ev, elapsed) ==
    /\ Len(client.log) < MaxClientFrames
    /\ elapsed => client.log # <<>>
    /\ client' =
          [prices |->
              IF Outcome(ev) = "Price"
              THEN [client.prices EXCEPT ![FromStrMsg(ev)[1].symbol] =
                                            Min(@ + 1, client.sample_max)]
              ELSE client.prices,
           trades |->
              IF Outcome(ev) = "Trade" THEN Min(client.trades + 1, TradesMax)
              ELSE client.trades,
           book_depth |->
              IF Outcome(ev) = "Book"
              THEN client.book_depth \cup {FromStrMsg(ev)[1].symbol}
              ELSE client.book_depth,
           msg_count |-> IF elapsed THEN 0 ELSE client.msg_count + 1,
           log |-> Append(client.log, Outcome(ev)),
           sample_max |-> client.sample_max,
           ws |-> client.ws,
           effect |-> client.effect \/ Outcome(ev) = "Price"]
    /\ UNCHANGED <<sleep_ms, tx, published, sessions, gen, lastFreq,
                   use_live_data, adapter, walk, metrics, pingers, can>>

\* The values of the Sample Window select: its three options.
SampleOptions == {200, 500, 1000}

\* on:change of the Sample Window select: the parsed value is written to
\* sample_max, and nothing else is touched.
SampleWindow(val) ==
    /\ client' = [client EXCEPT !.sample_max = val]
    /\ UNCHANGED <<sleep_ms, tx, published, sessions, gen, lastFreq,
                   use_live_data, adapter, walk, metrics, pingers, can>>

\* on:click of Reset All Metrics: the signals are cleared; the write to
\* prices notifies the connect effect, which reads prices.
ResetAllMetrics ==
    /\ client' = [client EXCEPT !.prices = [y \in ClientSymbols |-> 0],
                                !.trades = 0,
                                !.book_depth = {},
                                !.msg_count = 0,
                                !.effect = TRUE]
    /\ UNCHANGED <<sleep_ms, tx, published, sessions, gen, lastFreq,
                   use_live_data, adapter, walk, metrics, pingers, can>>

\* prices.read().is_empty(): no symbol has a series.
PricesEmpty == \A y \in ClientSymbols : client.prices[y] = 0

\* A run of the connect effect after a write to prices: when prices is
\* empty it opens a WebSocket, stores it in the window and adds a message
\* callback to it; the connections it replaced stay open with theirs.
ConnectEffect ==
    /\ client.effect
    /\ PricesEmpty => client.ws < MaxConnections
    /\ client' = [client EXCEPT !.effect = FALSE,
                                !.ws = IF PricesEmpty THEN @ + 1 ELSE @]
    /\ UNCHANGED <<sleep_ms, tx, published, sessions, gen, lastFreq,
                   use_live_data, adapter, walk, metrics, pingers, can>>

(***************************************************************************)
(* CANSignal::decode of src/src/can_types.rs.  A scale, an offset and a    *)
(* decoded value are held in hundredths.                                   *)
(***************************************************************************)
\* automotive_ids::ENGINE_RPM = 0x201
ENGINE_RPM == 513
\* automotive_ids::VEHICLE_SPEED = 0x300
VEHICLE_SPEED == 768
\* automotive_ids::ENGINE_TEMP = 0x400
ENGINE_TEMP == 1024

\* u16::from_be_bytes([data[0], data[1]]): the first byte is the high one.
FromBeBytes(b0, b1) == b0 * 256 + b1

\* pub fn decode(&self, data: &[u8]) -> Option<f64>
Decode(signal, data) ==
    IF data = <<>> THEN None
    ELSE CASE signal.can_id = ENGINE_RPM ->
                 IF Len(data) >= 2
                 THEN Some(FromBeBytes(data[1], data[2]) * signal.scale
                              + signal.offset)
                 ELSE None
           [] signal.can_id = VEHICLE_SPEED ->
                 IF Len(data) >= 2
                 THEN Some(FromBeBytes(data[1], data[2]) * 1) \* raw * 0.01
                 ELSE None
           [] OTHER -> None

\* The signals decode is called on in the model: the two ids it knows and
\* one it does not, with a scale of 0.01, 0.25 or 1 and an offset of 0 or
\* -40.
CanSignals ==
    [can_id : {ENGINE_RPM, VEHICLE_SPEED, ENGINE_TEMP},
     scale : {1, 25, 100}, offset : {0, -4000}]

\* The data it is called with: up to MaxDataLen bytes.
CanBytes == {0, 1, 255}

CanData == UNION {[1..n -> CanBytes] : n \in 0..MaxDataLen}

\* A call of decode returns.
DecodeCall ==
    /\ can.pc = "call"
    /\ can' = [can EXCEPT !.pc = "done",
                          !.result = Decode(can.signal, can.data)]
    /\ UNCHANGED <<sleep_ms, tx, published, sessions, gen, lastFreq,
                   use_live_data, adapter, walk, metrics, pingers, client>>

(***************************************************************************)
(* Specifications.  The tasks share only the hub and the Frequency         *)
(* Control, and the product of all of them is beyond exhaustive search, so *)
(* each specification schedules a part of them; every step is a step of    *)
(* the program.                                                            *)
(***************************************************************************)
\* No generator other than g has run: g is the one producer scheduled.
Solo(g) ==
    /\ \A h \in Generators \ {g} : gen[h] = [pc |-> "run", idx |-> 1, interval |-> 0]
    /\ \A i \in 1..Len(published) : published[i] \in UNION {Events(g, j) : j \in 1..EventsPerCycle(g)}

\* The generators whose events are fixed by their position in the cycle.
FixedEventGenerators == {g \in Generators : \A i \in 1..EventsPerCycle(g) :
                            Cardinality(Events(g, i)) = 1}

\* Spec: both sessions with every inbound frame, and one producer at a time
\* among those with fixed events.
Next ==
    \/ \E g \in FixedEventGenerators : Solo(g) /\ GenSend(g)
    \/ \E g \in FixedEventGenerators : Solo(g) /\ GenSleep(g)
    \/ \E g \in FixedEventGenerators : Solo(g) /\ GenWake(g)
    \/ \E s \in Sessions : Connect(s)
    \/ \E s \in Sessions : HubBranch(s)
    \/ \E s \in Sessions, f \in Frames : SocketBranch(s, f)

Spec == Init /\ [][Next]_vars

\* SpecProducers: any one producer, with one subscriber that sends control
\* frames and whose hub arm is never polled (a subscriber that does not
\* read).
Writer == CHOOSE s \in Sessions : \A t \in Sessions : s <= t

NextProducers ==
    \/ \E g \in Generators : Solo(g) /\ GenSend(g)
    \/ \E g \in Generators : Solo(g) /\ GenSleep(g)
    \/ \E g \in Generators : Solo(g) /\ GenWake(g)
    \/ Connect(Writer)
    \/ \E f \in Frames : SocketBranch(Writer, f)

SpecProducers == Init /\ [][NextProducers]_vars

\* SpecInterleaved: the producers with fixed events run concurrently, in
\* any interleaving, with one subscriber that reads and sends nothing.
Reader == CHOOSE s \in Sessions : \A t \in Sessions : s >= t

NextInterleaved ==
    \/ \E g \in FixedEventGenerators : GenSend(g)
    \/ \E g \in FixedEventGenerators : GenSleep(g)
    \/ \E g \in FixedEventGenerators : GenWake(g)
    \/ Connect(Reader)
    \/ HubBranch(Reader)

SpecInterleaved == Init /\ [][NextInterleaved]_vars

\* The adapter that publishes an event of the live data.
LiveSource(ev) ==
    IF ev.type = "trade" THEN "trades"
    ELSE CHOOSE a \in Adapters \ {"trades"} : NormalizeSymbol(a) = ev.symbol

\* No adapter other than a has run: a is the one adapter scheduled.
SoloAdapter(a) ==
    /\ \A b \in Adapters \ {a} : adapter[b].pc = "connecting"
    /\ \A b \in Adapters \ {a} : FreeSlots(b) = KeepAliveSlots
    /\ \A i \in 1..Len(published) : LiveSource(published[i]) = a

\* The keep-alive tasks of adapter a that are on a dead connection have
\* exited.
Prompt(a) == \A i \in KeepAliveSlots : pingers[a][i] # "dead"

\* No keep-alive task of adapter a is left on a connection that still
\* takes its pings.
NoOrphan(a) == \A i \in KeepAliveSlots : pingers[a][i] # "orphan"

\* SpecLive: the live adapters, one at a time, against every upstream
\* frame, where a keep-alive task lives as long as its connection: its
\* pings succeed while the connection is read and fail once it has ended,
\* and it has exited before its adapter goes on.
NextLive ==
    \/ \E a \in Adapters : SoloAdapter(a) /\ Prompt(a) /\ AdapterConnect(a)
    \/ \E a \in Adapters : \E f \in UpstreamFrames(a) :
          SoloAdapter(a) /\ AdapterRead(a, f) /\ NoOrphan(a)'
    \/ \E a \in Adapters : SoloAdapter(a) /\ Prompt(a) /\ AdapterDelayEnd(a)
    \/ \E a \in Adapters : \E i \in KeepAliveSlots :
          SoloAdapter(a) /\ pingers[a][i] = "dead" /\ PingTick(a, i, FALSE)

SpecLive == Init /\ [][NextLive]_vars

\* SpecLiveFair: SpecLive where a reconnect delay that has started ends and
\* the interval of a keep-alive task on a dead connection ticks, as the
\* timer of the runtime makes them.
SpecLiveFair ==
    /\ SpecLive
    /\ \A a \in Adapters : WF_vars(SoloAdapter(a) /\ Prompt(a) /\ AdapterDelayEnd(a))
    /\ \A a \in Adapters : \A i \in KeepAliveSlots :
          WF_vars(SoloAdapter(a) /\ pingers[a][i] = "dead" /\ PingTick(a, i, FALSE))

\* The upstream frames that make an adapter publish nothing.
SilentFrames(a) == {f \in UpstreamFrames(a) : Transformed(a, f) = None}

\* SpecKeepAlive: the connections of the live adapters, one adapter at a
\* time, and their keep-alive tasks in any interleaving, with an upstream
\* that sends nothing to publish; the interval of a keep-alive task on a
\* dead connection ticks.
NextKeepAlive ==
    \/ \E a \in Adapters : SoloAdapter(a) /\ AdapterConnect(a)
    \/ \E a \in Adapters : \E f \in SilentFrames(a) : SoloAdapter(a) /\ AdapterRead(a, f)
    \/ \E a \in Adapters : SoloAdapter(a) /\ AdapterDelayEnd(a)
    \/ \E a \in Adapters : \E i \in KeepAliveSlots, sendOk \in BOOLEAN :
          SoloAdapter(a) /\ PingTick(a, i, sendOk)

SpecKeepAlive ==
    /\ Init /\ [][NextKeepAlive]_vars
    /\ \A a \in Adapters : \A i \in KeepAliveSlots :
          WF_vars(SoloAdapter(a) /\ pingers[a][i] = "dead" /\ PingTick(a, i, FALSE))

\* SpecMetrics: the system metrics generator alone, each send after the
\* metric it carries has been computed, with one subscriber that sends
\* control frames and does not read; in simulated and in live mode.
NextMetrics ==
    \/ \E amount \in Amounts : Solo("system") /\ SystemTick(amount)
    \/ Solo("system") /\ metrics.emitted > SystemSent /\ GenSend("system")
    \/ Solo("system") /\ GenSleep("system")
    \/ Solo("system") /\ GenWake("system")
    \/ Connect(Writer)
    \/ \E f \in Frames : SocketBranch(Writer, f)

SpecMetrics == Init /\ [][NextMetrics]_vars

\* The values the Frequency Control can hold: what freq.max(10).min(1000)
\* lets through.
ControlRange == 10..1000

\* The values of the range a run starts from: its ends, the initial value,
\* and the values next to where 2f and 3f reach the floor of 50.
ControlSamples == {f \in ControlRange : f \in {10, 16, 17, 24, 25, 50, 500, 1000}}

\* SpecCadence: the generators, one at a time, from the state in which the
\* first subscriber has connected and its control frame has stored one of
\* the sampled values.  No later write happens.
InitCadence ==
    /\ sleep_ms \in ControlSamples
    /\ lastFreq = Some(sleep_ms)
    /\ use_live_data = FALSE
    /\ tx = [tail |-> 0, buffer |-> <<>>]
    /\ published = <<>>
    /\ sessions = [s \in Sessions |->
                     [status |-> IF s = Writer THEN "open" ELSE "idle",
                      rx |-> s = Writer, state |-> s = Writer,
                      next |-> 0, subAt |-> 0, sent |-> <<>>, why |-> "-",
                      inbox |-> <<>>]]
    /\ gen = [g \in Generators |-> [pc |-> "run", idx |-> 1, interval |-> 0]]
    /\ adapter = [a \in Adapters |-> [pc |-> "off"]]
    /\ walk = [idx |-> 1, ticks |-> 0, prices |-> InitialPrices,
               last |-> [i \in 1..Len(PriceSymbols) |-> NoPrice],
               prev |-> [i \in 1..Len(PriceSymbols) |-> NoPrice]]
    /\ metrics = [msg_count |-> 0, emitted |-> 0,
                  last |-> NoMetric, prev |-> NoMetric]
    /\ pingers = [a \in Adapters |-> [i \in KeepAliveSlots |-> "free"]]
    /\ client = [prices |-> [y \in ClientSymbols |-> 0], trades |-> 0,
                 book_depth |-> {}, msg_count |-> 0, log |-> <<>>,
                 sample_max |-> SampleMax, ws |-> 1, effect |-> FALSE]
    /\ can = NoCall

NextCadence ==
    \/ \E g \in Generators : Solo(g) /\ GenSend(g)
    \/ \E g \in Generators : Solo(g) /\ GenSleep(g)
    \/ \E g \in Generators : Solo(g) /\ GenWake(g)

SpecCadence == InitCadence /\ [][NextCadence]_vars

\* SpecClient: the client against every message event.
NextClient == \E ev \in MessageEvents, elapsed \in BOOLEAN : OnMessage(ev, elapsed)

SpecClient == Init /\ [][NextClient]_vars

\* SpecPrices: the ticks of the price generator.
NextPrices == \E change \in Changes : PriceTick(change)

SpecPrices == Init /\ [][NextPrices]_vars

\* No adapter other than a is on a connection or in its delay.
Alone(a) ==
    /\ \A b \in Adapters \ {a} : adapter[b].pc = "connecting"
    /\ \A b \in Adapters \ {a} : FreeSlots(b) = KeepAliveSlots

\* The upstream frames that are not text: pongs, pings, close frames, read
\* errors and the end of the stream.
NonTextFrames(a) == {f \in UpstreamFrames(a) : f.kind # "text"}

\* SpecUpstream: live mode with a subscriber that reads: the adapters, one
\* connection at a time, on an upstream whose handshakes can fail and that
\* sends no text, the system generator, and one session on the hub.
NextUpstream ==
    \/ \E a \in Adapters : Alone(a) /\ Prompt(a) /\ AdapterConnect(a)
    \/ \E a \in Adapters : \E f \in NonTextFrames(a) :
          Alone(a) /\ AdapterRead(a, f) /\ NoOrphan(a)'
    \/ \E a \in Adapters : Alone(a) /\ Prompt(a) /\ AdapterDelayEnd(a)
    \/ \E a \in Adapters : \E i \in KeepAliveSlots :
          Alone(a) /\ pingers[a][i] = "dead" /\ PingTick(a, i, FALSE)
    \/ GenSend("system")
    \/ GenSleep("system")
    \/ GenWake("system")
    \/ Connect(Reader)
    \/ HubBranch(Reader)

InitUpstream == Init /\ use_live_data

SpecUpstream == InitUpstream /\ [][NextUpstream]_vars

\* SpecCadenceFair: SpecCadence where a sleep that has started ends, as the
\* timer of the runtime makes it.
SpecCadenceFair ==
    /\ SpecCadence
    /\ \A g \in Generators : WF_vars(Solo(g) /\ GenWake(g))

\* The frames of SpecPage: a price of each symbol and a trade.
PageEvents ==
    {ev \in MessageEvents :
        /\ ev.text /\ ev.json
        /\ DOMAIN ev.body = {"type", "symbol"}
        /\ \/ ev.body.type = "price"
           \/ ev.body.type = "trade" /\ ev.body.symbol = "BTC/USD"}

\* SpecPage: the page with its controls: frames arrive, the Sample Window
\* is changed, Reset All Metrics is clicked and the connect effect runs
\* when notified.  A run starts from a page whose Sample Window has been
\* set to one of its options and whose series are empty or have filled up
\* to it.
InitPage ==
    /\ sleep_ms = DefaultSleepMs
    /\ tx = [tail |-> 0, buffer |-> <<>>]
    /\ published = <<>>
    /\ sessions = [s \in Sessions |->
                     [status |-> "idle", rx |-> FALSE, state |-> FALSE,
                      next |-> 0, subAt |-> 0, sent |-> <<>>, why |-> "-",
                      inbox |-> <<>>]]
    /\ gen = [g \in Generators |-> [pc |-> "run", idx |-> 1, interval |-> 0]]
    /\ lastFreq = None
    /\ use_live_data = FALSE
    /\ adapter = [a \in Adapters |-> [pc |-> "off"]]
    /\ walk = [idx |-> 1, ticks |-> 0, prices |-> InitialPrices,
               last |-> [i \in 1..Len(PriceSymbols) |-> NoPrice],
               prev |-> [i \in 1..Len(PriceSymbols) |-> NoPrice]]
    /\ metrics = [msg_count |-> 0, emitted |-> 0,
                  last |-> NoMetric, prev |-> NoMetric]
    /\ pingers = [a \in Adapters |-> [i \in KeepAliveSlots |-> "free"]]
    /\ \E cap \in SampleOptions :
       \E full \in SUBSET ClientSymbols :
       \E t \in {0, TradesMax - 1, TradesMax} :
          client = [prices |-> [y \in ClientSymbols |->
                                   IF y \in full THEN cap ELSE 0],
                    trades |-> t,
                    book_depth |-> {}, msg_count |-> 0, log |-> <<>>,
                    sample_max |-> cap, ws |-> 1, effect |-> FALSE]
    /\ can = NoCall

NextPage ==
    \/ \E ev \in PageEvents, elapsed \in BOOLEAN : OnMessage(ev, elapsed)
    \/ \E val \in SampleOptions : SampleWindow(val)
    \/ ResetAllMetrics
    \/ ConnectEffect

SpecPage == InitPage /\ [][NextPage]_vars

\* One upstream text frame per adapter that makes it publish, with the
\* frames that are not text.
ModeFrames(a) ==
    {CHOOSE f \in UpstreamFrames(a) : Transformed(a, f) # None}
    \cup NonTextFrames(a)

\* SpecModes: both serving modes with all their producers and no
\* subscriber: the generators one at a time without live data; with live
\* data the adapters, one connection at a time, and the system generator.
NextModes ==
    \/ \E g \in Generators : (use_live_data \/ Solo(g)) /\ GenSend(g)
    \/ \E g \in Generators : (use_live_data \/ Solo(g)) /\ GenSleep(g)
    \/ \E g \in Generators : (use_live_data \/ Solo(g)) /\ GenWake(g)
    \/ \E a \in Adapters : Alone(a) /\ Prompt(a) /\ AdapterConnect(a)
    \/ \E a \in Adapters : \E f \in ModeFrames(a) :
          Alone(a) /\ AdapterRead(a, f) /\ NoOrphan(a)'
    \/ \E a \in Adapters : Alone(a) /\ Prompt(a) /\ AdapterDelayEnd(a)
    \/ \E a \in Adapters : \E i \in KeepAliveSlots :
          Alone(a) /\ pingers[a][i] = "dead" /\ PingTick(a, i, FALSE)

SpecModes == Init /\ [][NextModes]_vars

\* The step of the socket branch on a frame that waits on the socket.
SocketBranchPending(s) ==
    \E f \in Frames : sessions[s].inbox = Some(f) /\ SocketBranch(s, f)

\* The frames that reach the socket in SpecDuties: the control frames that
\* carry an integer, a ping and a close frame.
DutyFrames ==
    {f \in Frames :
        \/ f.kind \in {"ping", "close"}
        \/ f.kind = "text" /\ f.body.shape = "object" /\ f.body.freq.t = "int"}

\* SpecDuties: one session with both its duties: the system generator
\* publishes, frames reach the socket and wait there, and each select!
\* takes a branch that is ready.
NextDuties ==
    \/ GenSend("system")
    \/ GenSleep("system")
    \/ GenWake("system")
    \/ Connect(Reader)
    \/ \E f \in DutyFrames : Arrive(Reader, f)
    \/ Select(Reader, "hub") /\ HubBranch(Reader)
    \/ Select(Reader, "socket") /\ SocketBranchPending(Reader)

SpecDuties == Init /\ [][NextDuties]_vars

\* SpecDutiesFair: SpecDuties where a branch of select! that stays ready
\* is taken in the end, as a selection that is fair between the branches
\* makes it.
SpecDutiesFair ==
    /\ SpecDuties
    /\ WF_vars(Select(Reader, "hub") /\ HubBranch(Reader))
    /\ WF_vars(Select(Reader, "socket") /\ SocketBranchPending(Reader))

\* SpecDecode: one call of CANSignal::decode on each signal and data of
\* the model.
InitDecode ==
    /\ sleep_ms = DefaultSleepMs
    /\ tx = [tail |-> 0, buffer |-> <<>>]
    /\ published = <<>>
    /\ sessions = [s \in Sessions |->
                     [status |-> "idle", rx |-> FALSE, state |-> FALSE,
                      next |-> 0, subAt |-> 0, sent |-> <<>>, why |-> "-",
                      inbox |-> <<>>]]
    /\ gen = [g \in Generators |-> [pc |-> "run", idx |-> 1, interval |-> 0]]
    /\ lastFreq = None
    /\ use_live_data = FALSE
    /\ adapter = [a \in Adapters |-> [pc |-> "off"]]
    /\ walk = [idx |-> 1, ticks |-> 0, prices |-> InitialPrices,
               last |-> [i \in 1..Len(PriceSymbols) |-> NoPrice],
               prev |-> [i \in 1..Len(PriceSymbols) |-> NoPrice]]
    /\ metrics = [msg_count |-> 0, emitted |-> 0,
                  last |-> NoMetric, prev |-> NoMetric]
    /\ pingers = [a \in Adapters |-> [i \in KeepAliveSlots |-> "free"]]
    /\ client = [prices |-> [y \in ClientSymbols |-> 0], trades |-> 0,
                 book_depth |-> {}, msg_count |-> 0, log |-> <<>>,
                 sample_max |-> SampleMax, ws |-> 1, effect |-> FALSE]
    /\ \E signal \in CanSignals, data \in CanData :
          can = [pc |-> "call", signal |-> signal, data |-> data,
                 result |-> None]

NextDecode == DecodeCall

SpecDecode == InitDecode /\ [][NextDecode]_vars

(***************************************************************************)
(* Claims.                                                                 *)
(***************************************************************************)
IsOpen(s) == sessions[s].status = "open"

\* clamp(v, lo, hi) of the specification.
ClampTo(v, lo, hi) == IF v < lo THEN lo ELSE IF v > hi THEN hi ELSE v

\* The events published at positions from..to-1, with their positions.
Published(from, to) ==
    [i \in 1..(to - from) |-> [pos |-> from + i - 1, val |-> published[from + i]]]

\* Session s has been forwarded every event from its subscription up to its
\* cursor, in order and with no gap, and nothing else.
GapFree(s) == sessions[s].sent = Published(sessions[s].subAt, sessions[s].next)

\* C1: a session whose hub cursor lags is not terminated by the lag: no
\* session handler ever ends because rx.recv() reported the lag.
C1_LagDoesNotTerminate ==
    \A s \in Sessions :
        ~(sessions[s].status = "closed" /\ sessions[s].why = "lagged")

\* C2: with two sessions subscribed, when one has kept reading and has been
\* forwarded more events than the hub holds, it has seen every event since
\* its subscription with no gap, and the other session, which did not read
\* meanwhile, has not been ended by its lag (it can still receive).
C2_ReaderGapFreeLaggardSurvives ==
    \A s, t \in Sessions :
        (s # t /\ IsOpen(t) /\ Len(sessions[t].sent) > Capacity)
            => /\ GapFree(t)
               /\ sessions[s].why # "lagged"

\* C3: hub fan-out.  An open session has been forwarded exactly the events
\* published from its subscription up to its cursor (none published before
\* it subscribed, none skipped), and the event its cursor waits at, unless
\* evicted, is the next published one.
C3_FanOut ==
    \A s \in Sessions :
        IsOpen(s) =>
            /\ sessions[s].subAt <= sessions[s].next
            /\ sessions[s].next <= tx.tail
            /\ GapFree(s)
            /\ \A i \in 1..Len(sessions[s].sent) :
                   sessions[s].sent[i].pos >= sessions[s].subAt
            /\ LET r == Recv(tx, sessions[s].next)
               IN  r.res = "Ok" => r.val = published[sessions[s].next + 1]

\* Two sessions, the second subscribed after events were published; both
\* have been forwarded an event published after the second subscription.
C3_Witness ==
    \E s, t \in Sessions :
        /\ IsOpen(s) /\ IsOpen(t)
        /\ sessions[s].subAt < sessions[t].subAt
        /\ Len(sessions[t].sent) >= 1
        /\ sessions[s].next >= sessions[t].next

\* The control frames {"frequency_ms": v} with an integer v.
IntegerControlFrames ==
    {f \in Frames : f.kind = "text" /\ f.body.shape = "object" /\ f.body.freq.t = "int"}

\* C4: Frequency Control round trip.  For every open session and every
\* integer v, handling the control frame that carries v leaves the
\* Frequency Control at clamp(v, 10, 1000).
C4_RoundTrip ==
    \A s \in Sessions : \A f \in IntegerControlFrames :
        IsOpen(s) =>
            ENABLED (SocketBranch(s, f)
                     /\ sleep_ms' = ClampTo(f.body.freq.n, 10, 1000))

\* C5: the Frequency Control is always an integer in [10, 1000], and it is
\* 50 until the first control frame is stored.
C5_ControlInRange ==
    /\ sleep_ms \in 10..1000
    /\ lastFreq = None => sleep_ms = 50

\* A frame carrying a value above the range was stored, clamped.
C5_Witness ==
    /\ lastFreq = Some(2000)
    /\ sleep_ms = 1000
    /\ \A s \in Sessions : sessions[s].status # "idle"

\* C6: when the last control frame stored carried 5, the price generator's
\* next sleep is 10 ms, not 5; and no generator ever sleeps less than 10 ms.
C6_FloorClamped ==
    [][/\ \A g \in Generators :
             gen'[g].pc = "sleep" => gen'[g].interval >= 10
       /\ (lastFreq = Some(5) /\ GenSleep("price"))
             => gen'["price"].interval = 10]_vars

\* The price generator sleeps 10 ms after the control frame carrying 5.
C6_Witness ==
    /\ lastFreq = Some(5)
    /\ gen["price"].pc = "sleep"
    /\ gen["price"].interval = 10

\* The inbound frames that are not a JSON control object with an integer
\* frequency_ms: text that is not JSON, JSON without the field, a null, a
\* fractional or a string frequency_ms, and binary, ping and pong frames.
NonControlFrames ==
    {f \in Frames :
        \/ f.kind \in {"binary", "ping", "pong"}
        \/ f.kind = "text" /\ f \notin IntegerControlFrames}

\* C7: such a frame is ignored: handling it leaves the Frequency Control
\* unchanged, the session open and nothing sent to the subscriber.
C7_NonControlIgnored ==
    \A s \in Sessions : \A f \in NonControlFrames :
        IsOpen(s) =>
            ENABLED (SocketBranch(s, f)
                     /\ sleep_ms' = sleep_ms
                     /\ sessions' = sessions)

\* Session s ends on a failed send or on a closed socket.
TransportEnds(s) ==
    /\ IsOpen(s)
    /\ sessions'[s].status = "closed"
    /\ sessions'[s].why \in {"send_failed", "closed"}

\* C8: a transport failure or close of one session ends only that session:
\* the hub and its retained events, the producers, the Frequency Control
\* and every other session are as before, so the others go on receiving.
C8_OnlyThatSessionEnds ==
    [][\A s \in Sessions :
          TransportEnds(s) =>
              /\ tx' = tx
              /\ published' = published
              /\ gen' = gen
              /\ sleep_ms' = sleep_ms
              /\ \A t \in Sessions \ {s} : sessions'[t] = sessions[t]]_vars

\* One session ended by a failed send while the other, still open, has been
\* forwarded every event published so far.
C8_Witness ==
    \E s, t \in Sessions :
        /\ sessions[s].status = "closed" /\ sessions[s].why = "send_failed"
        /\ IsOpen(t)
        /\ sessions[t].next = tx.tail
        /\ Len(sessions[t].sent) >= 2

\* C9: a publish never waits for or fails on a subscriber: every send of a
\* producer stores its event as the newest of the hub and the producer goes
\* on to its next step, whether no session exists or a session is not
\* reading; no session is touched by it.
C9_PublishNeverBlocks ==
    [][\A g \in Generators :
          GenSend(g) =>
              /\ tx'.tail = tx.tail + 1
              /\ tx'.buffer[Len(tx'.buffer)] =
                     [pos |-> tx.tail, val |-> published'[tx.tail + 1]]
              /\ gen'[g].idx = gen[g].idx + 1
              /\ sessions' = sessions]_vars

\* A subscriber that never read is more than the capacity behind, and the
\* producer has finished its cycle and sleeps.
C9_Witness ==
    /\ IsOpen(Writer)
    /\ sessions[Writer].next = 0
    /\ tx.tail > Capacity
    /\ \E g \in Generators : gen[g].pc = "sleep"

\* C10, as stated: the hub never retains more than the requested capacity.
C10_AtMostRequested == Len(tx.buffer) <= HubCapacityRequested

\* C10, amended: the hub retains at most the requested capacity rounded up
\* to a power of two, always the most recent events in order (so a publish
\* into a full hub evicts the oldest and never the newest), and a cursor at
\* most that many events behind the latest publish loses no event.
C10_RetainsMostRecent ==
    /\ Len(tx.buffer) = Min(tx.tail, Capacity)
    /\ Len(published) = tx.tail
    /\ tx.buffer = Published(Oldest(tx), tx.tail)
    /\ \A n \in 0..tx.tail :
           tx.tail - n <= Capacity =>
               /\ Recv(tx, n).res # "Lagged"
               /\ n < tx.tail => Recv(tx, n).val = published[n + 1]

\* The hub is full and has evicted, and an open session is exactly the
\* capacity behind.
C10_Witness ==
    /\ Len(tx.buffer) = Capacity
    /\ tx.tail > Capacity
    /\ \E s \in Sessions : IsOpen(s) /\ tx.tail - sessions[s].next = Capacity

\* The producer task of an event: each simulated generator is the only
\* sender of its type.
Producer(ev) == ev.type

\* C11: per-publisher order.  The frames a session has sent are events of
\* the hub at the positions recorded, and two events of the same producer
\* are sent to the transport in the order the producer published them.
C11_PerPublisherOrder ==
    \A s \in Sessions :
        \A i, j \in 1..Len(sessions[s].sent) :
            /\ sessions[s].sent[i].val = published[sessions[s].sent[i].pos + 1]
            /\ (i < j /\ Producer(sessions[s].sent[i].val) = Producer(sessions[s].sent[j].val))
                   => sessions[s].sent[i].pos < sessions[s].sent[j].pos

\* Two producers published alternately and the session has forwarded two
\* events of one producer with an event of the other in between.
C11_Witness ==
    \E s \in Sessions :
        /\ IsOpen(s)
        /\ Len(sessions[s].sent) >= 3
        /\ Producer(sessions[s].sent[1].val) = Producer(sessions[s].sent[3].val)
        /\ Producer(sessions[s].sent[1].val) # Producer(sessions[s].sent[2].val)

\* C12: every frame a session has sent is, unchanged, the event published at
\* the frame's hub position, which is at or after the session's
\* subscription; no position is sent twice; and a frame of a Price event
\* deserializes at the subscriber to the Price of the published symbol.
C12_VerbatimAtMostOnce ==
    \A s \in Sessions :
        \A i \in 1..Len(sessions[s].sent) :
            LET fr == sessions[s].sent[i]
            IN  /\ fr.pos >= sessions[s].subAt
                /\ fr.pos < Len(published)
                /\ fr.val = published[fr.pos + 1]
                /\ \A j \in 1..Len(sessions[s].sent) :
                       j # i => sessions[s].sent[j].pos # fr.pos
                /\ published[fr.pos + 1].type = "price" =>
                       /\ DeserializeMsg(fr.val).variant = "Price"
                       /\ DeserializeMsg(fr.val).symbol \in
                              {PriceSymbols[k] : k \in 1..Len(PriceSymbols)}
                       /\ DeserializeMsg(fr.val).symbol = published[fr.pos + 1].symbol

\* A session subscribed after an earlier publish; one Price event was
\* published since and the session has sent exactly one frame, that event.
C12_Witness ==
    \E s \in Sessions :
        /\ IsOpen(s)
        /\ sessions[s].subAt > 0
        /\ tx.tail = sessions[s].subAt + 1
        /\ published[tx.tail].type = "price"
        /\ Len(sessions[s].sent) = 1
        /\ sessions[s].sent[1].val = published[tx.tail]

\* What socket.recv() yields when the inbound duty fails: a close frame,
\* the end of the stream, a transport error.
FailedReceives == {f \in Frames : f.kind \in {"close", "none", "error"}}

\* C13: a session ends in the iteration in which a duty fails: for an open
\* session, handling a close frame, the end of the stream or a transport
\* error ends the session.
C13_EndsOnFailedDuty ==
    \A s \in Sessions : \A f \in FailedReceives :
        IsOpen(s) =>
            ENABLED (SocketBranch(s, f) /\ sessions'[s].status = "closed")

\* C14: whenever the upstream connection of an adapter ends (the adapter
\* leaves Streaming, or a handshake fails) the adapter is next in the
\* reconnect delay, and it enters Connecting only from that delay.
C14_DelayBeforeReconnect ==
    [][\A a \in Adapters :
          /\ (adapter[a].pc = "streaming" /\ adapter'[a].pc # "streaming")
                 => adapter'[a].pc = "delay"
          /\ (adapter[a].pc = "connecting" /\ adapter'[a].pc \notin {"connecting", "streaming"})
                 => adapter'[a].pc = "delay"
          /\ (adapter[a].pc # "connecting" /\ adapter'[a].pc = "connecting")
                 => adapter[a].pc = "delay"]_vars

\* C15: the reconnect loop has no terminal state: with live data every
\* adapter is always connecting, streaming or in its reconnect delay, a
\* step of one adapter leaves the others where they are, and an adapter
\* whose connection has ended and that waits the delay attempts a new
\* connection eventually, every time.
C15_ReconnectsForever ==
    /\ [](\A a \in Adapters :
             use_live_data => adapter[a].pc \in {"connecting", "streaming", "delay"})
    /\ [][\A a, b \in Adapters :
             (a # b /\ adapter'[a] # adapter[a]) => adapter'[b] = adapter[b]]_vars
    /\ \A a \in Adapters :
           (adapter[a].pc = "delay") ~> (adapter[a].pc = "connecting")

\* An adapter that streamed and published is in the reconnect delay: its
\* connection has ended.
C15_Witness ==
    \E a \in Adapters :
        /\ adapter[a].pc = "delay"
        /\ Len(published) >= 2
        /\ \A i \in 1..Len(published) : LiveSource(published[i]) = a

\* The texts that are decimal numbers.
DecimalTexts == {"45000.12", "500", "0.5", "0"}

\* A JSON value that is a string holding a decimal number.
IsDecimalString(v) == v.t = "str" /\ v.text \in DecimalTexts

\* The text frames of a ticker stream with all of s, c and v well formed,
\* and those of the trade stream with all of s, p, q and m well formed.
WellFormedFrames(a) ==
    {f \in UpstreamFrames(a) :
        /\ f.kind = "text"
        /\ f.body.json
        /\ IF a = "trades"
           THEN LET o == IF f.body.data = Missing THEN f.body.top
                         ELSE IF f.body.data.t = "obj" THEN f.body.data.obj
                         ELSE EmptyObject
                IN  /\ o.s.t = "str"
                    /\ IsDecimalString(o.p)
                    /\ IsDecimalString(o.q)
                    /\ o.m.t = "bool"
           ELSE /\ f.body.s.t = "str"
                /\ IsDecimalString(f.body.c)
                /\ IsDecimalString(f.body.v)}

\* The text frames that are not JSON or have a missing or malformed field.
MalformedFrames(a) ==
    {f \in UpstreamFrames(a) : f.kind = "text"} \ WellFormedFrames(a)

\* C16: a streaming adapter drops a malformed text frame (nothing is
\* published, the adapter stays in Streaming) and publishes one event for
\* a well-formed frame, staying in Streaming.
C16_MalformedDropped ==
    \A a \in Adapters :
        adapter[a].pc = "streaming" =>
            /\ \A f \in MalformedFrames(a) :
                   ENABLED (AdapterRead(a, f) /\ tx' = tx
                            /\ published' = published /\ adapter' = adapter)
            /\ \A f \in WellFormedFrames(a) :
                   tx.tail < MaxLivePublished =>
                       ENABLED (AdapterRead(a, f)
                                /\ Len(published') = Len(published) + 1
                                /\ adapter' = adapter)

\* C17: every Trade event published to the hub has a side that is buy or
\* sell and a size that is a number above 0.
C17_TradeSideAndSize ==
    \A i \in 1..Len(published) :
        published[i].type = "trade" =>
            /\ published[i].side \in {"buy", "sell"}
            /\ published[i].size.t = "num"
            /\ published[i].size.n > 0

\* The book events published so far.
PublishedBooks == {published[i] : i \in {j \in 1..Len(published) : published[j].type = "book"}}

\* C18: every book event has five bid and five ask levels, the bid prices
\* non-increasing and the ask prices non-decreasing from level to level,
\* and no bid price above the lowest ask price.
C18_BookLevelsOrdered ==
    \A ev \in PublishedBooks :
        /\ Len(ev.bids) = 5
        /\ Len(ev.asks) = 5
        /\ \A l \in 1..(Len(ev.bids) - 1) : ev.bids[l] >= ev.bids[l + 1]
        /\ \A l \in 1..(Len(ev.asks) - 1) : ev.asks[l] <= ev.asks[l + 1]
        /\ \A l, m \in 1..5 : ev.bids[l] <= ev.asks[m]

\* Book events of both symbols have been published.
C18_Witness ==
    /\ \E ev \in PublishedBooks : ev.symbol = "BTC/USD"
    /\ \E ev \in PublishedBooks : ev.symbol = "ETH/USD"

\* C19: every price emitted is above 0, and its relative change from the
\* price emitted before for the same symbol is within 0.2 % (prices in
\* cents: |last - prev| <= 0.002 * prev).
C19_PriceBounded ==
    \A i \in 1..Len(PriceSymbols) :
        /\ walk.last[i] # NoPrice => walk.last[i] > 0
        /\ walk.prev[i] # NoPrice =>
               /\ (walk.last[i] - walk.prev[i]) * 1000 <= 2 * walk.prev[i]
               /\ (walk.prev[i] - walk.last[i]) * 1000 <= 2 * walk.prev[i]

\* C20: last write wins.  The Frequency Control always holds the default
\* or, whole, the clamp of the value carried by the frame stored last, by
\* whichever session; and it changes only in a step in which a session
\* stores the clamp of the value its frame carries.
C20_LastWriteWins ==
    /\ [](sleep_ms = IF lastFreq = None THEN 50
                     ELSE ClampTo(lastFreq[1], 10, 1000))
    /\ [][sleep_ms' # sleep_ms =>
             \E s \in Sessions, f \in Frames :
                 /\ SocketBranch(s, f)
                 /\ ControlOf(f) # None
                 /\ sleep_ms' = ClampTo(ControlOf(f)[1], 10, 1000)]_vars

\* Two open sessions race to overwrite a stored value: either store can
\* come next, and each would leave its own clamped value.
C20_Witness ==
    /\ lastFreq = Some(2000)
    /\ sleep_ms = 1000
    /\ \A s \in Sessions : IsOpen(s)
    /\ ENABLED (SocketBranch(Writer, [kind |-> "text", body |-> [shape |-> "object", freq |-> [t |-> "int", n |-> 5]]])
                /\ sleep_ms' = 10)
    /\ ENABLED (SocketBranch(Reader, [kind |-> "text", body |-> [shape |-> "object", freq |-> [t |-> "int", n |-> 500]]])
                /\ sleep_ms' = 500)

\* The event a step publishes, if it publishes one.
PublishedNow == published'[Len(published')]

\* C21: every producer of Price, BookDepth and Trade events, simulated or
\* live, reads the Frequency Control once per cycle: a step that publishes
\* such an event is a step of a task whose cycle loads sleep_ms, that is a
\* send of the price, book or trade generator, whose cycle ends in GenSleep
\* with the interval taken from sleep_ms.  The live adapters publish from
\* AdapterRead, a loop that holds only the hub sender.
C21_ProducersReadControl ==
    [][(/\ Len(published') = Len(published) + 1
        /\ PublishedNow.type \in {"price", "book", "trade"})
       => \E g \in {"price", "book", "trade"} :
             /\ gen[g].pc = "run"
             /\ gen'[g].idx = gen[g].idx + 1]_vars

\* The trade frames that hold one trade object, flat or in the member
\* "data" of an otherwise empty payload, and the flag m of that object.
SingleTradeFrames ==
    {f \in UpstreamFrames("trades") :
        /\ f.kind = "text"
        /\ f.body.json
        /\ \/ f.body.data = Missing
           \/ f.body.data.t = "obj" /\ f.body.top = EmptyObject}

TradeObjectOf(f) == IF f.body.data = Missing THEN f.body.top ELSE f.body.data.obj

FlagOf(f) == TradeObjectOf(f).m

\* C22: the trade translation inverts the buyer-is-maker flag: the Trade
\* published for a payload with m = true has side sell, for m = false side
\* buy, and no published Trade has another side.
C22_SideInvertsFlag ==
    /\ [](\A i \in 1..Len(published) :
             published[i].type = "trade" => published[i].side \in {"sell", "buy"})
    /\ [][Len(published') = Len(published) + 1 =>
             \A f \in SingleTradeFrames :
                 (Transformed("trades", f) # None /\ AdapterRead("trades", f))
                 => /\ FlagOf(f) = Bool(TRUE) => PublishedNow.side = "sell"
                    /\ FlagOf(f) = Bool(FALSE) => PublishedNow.side = "buy"]_vars

\* The trade adapter has published a sell and, after it, a buy.
C22_Witness ==
    \E i, j \in 1..Len(published) :
        /\ i < j
        /\ published[i].type = "trade" /\ published[i].side = "sell"
        /\ published[j].type = "trade" /\ published[j].side = "buy"

\* The normalization the specification gives: the three known identifiers
\* in any letter case, and the upper-case form of any other identifier.
NormalizedAs(text) ==
    CASE text \in {"BTCUSDT", "btcusdt", "BtcUsdt"} -> "BTC/USD"
      [] text \in {"ETHUSDT", "ethusdt", "EthUsdt"} -> "ETH/USD"
      [] text \in {"SOLUSDT", "solusdt", "SolUsdt"} -> "SOL/USD"
      [] text = "dogeusdt" -> "DOGEUSDT"
      [] OTHER -> text

\* The JSON text frames of a ticker stream.
TickerJsonFrames(a) ==
    {f \in UpstreamFrames(a) : f.kind = "text" /\ f.body.json}

\* C23: the Price or Trade event an adapter publishes for a payload carries
\* the normalization of the payload's symbol: BTC/USD, ETH/USD or SOL/USD
\* for BTCUSDT, ETHUSDT or SOLUSDT in any letter case, and the upper-case
\* form of any other identifier.
C23_SymbolNormalized ==
    [][Len(published') = Len(published) + 1 =>
         /\ \A f \in SingleTradeFrames :
               (Transformed("trades", f) # None /\ AdapterRead("trades", f))
               => PublishedNow.symbol = NormalizedAs(TradeObjectOf(f).s.text)
         /\ \A a \in Adapters \ {"trades"} : \A f \in TickerJsonFrames(a) :
               (Transformed(a, f) # None /\ AdapterRead(a, f))
               => PublishedNow.symbol = NormalizedAs(f.body.s.text)]_vars

\* The trade adapter has published a trade of a known symbol and a trade of
\* a symbol that is passed through upper-cased.
C23_Witness ==
    \E i, j \in 1..Len(published) :
        /\ published[i].type = "trade" /\ published[i].symbol = "BTC/USD"
        /\ published[j].type = "trade" /\ published[j].symbol = "DOGEUSDT"

\* Session s ends, on whichever arm.
Terminates(s) == IsOpen(s) /\ sessions'[s].status = "closed"

\* C24: the end of a session, whatever ended it, releases that session's
\* cursor and socket and nothing else: the session holds no cursor and no
\* forwarded frame afterwards and never changes again, and the Frequency
\* Control, the hub and its retained events, the producers and the other
\* sessions are as before the step.
C24_TerminationReleasesOnlyItself ==
    [][\A s \in Sessions :
          /\ Terminates(s) =>
                /\ sessions'[s].next = 0
                /\ sessions'[s].sent = <<>>
                /\ <<sleep_ms, lastFreq, tx, published, gen, adapter>>'
                      = <<sleep_ms, lastFreq, tx, published, gen, adapter>>
                /\ \A t \in Sessions \ {s} : sessions'[t] = sessions[t]
          /\ sessions[s].status = "closed" => sessions'[s] = sessions[s]]_vars

\* One session was ended by its lag behind the hub while the other, still
\* open, holds a cursor and has been forwarded an event.
C24_Witness ==
    \E s, t \in Sessions :
        /\ sessions[s].status = "closed" /\ sessions[s].why = "lagged"
        /\ IsOpen(t)
        /\ sessions[t].next > 0
        /\ Len(sessions[t].sent) >= 1

\* The message events whose JSON object has a type the client does not
\* know.
UnknownTypeEvents ==
    {ev \in MessageEvents :
        /\ ev.text /\ ev.json
        /\ "type" \in DOMAIN ev.body
        /\ ev.body.type \notin {"price", "trade", "book", "system"}}

\* A price frame of symbol y.
PriceEvent(y) ==
    [text |-> TRUE, json |-> TRUE, body |-> [type |-> "price", symbol |-> y]]

\* C25: a frame of unknown type is read as the variant Other, which is not
\* an error, and leaves the client's prices, trades and book as they were;
\* whatever frames were handled before, a price frame is still recorded.
C25_UnknownTypeIgnored ==
    /\ [][\A ev \in UnknownTypeEvents : \A elapsed \in BOOLEAN :
             OnMessage(ev, elapsed) =>
                 /\ client'.log[Len(client'.log)] = "Other"
                 /\ client'.prices = client.prices
                 /\ client'.trades = client.trades
                 /\ client'.book_depth = client.book_depth]_vars
    /\ [](\A y \in ClientSymbols :
             Len(client.log) < MaxClientFrames =>
                 ENABLED (OnMessage(PriceEvent(y), FALSE)
                          /\ client'.prices[y] = client.prices[y] + 1))

\* A frame of unknown type was handled and the price frame after it was
\* recorded.
C25_Witness ==
    \E i \in 1..Len(client.log) - 1 :
        /\ client.log[i] = "Other"
        /\ client.log[i + 1] = "Price"
        /\ \E y \in ClientSymbols : client.prices[y] >= 1

\* The value the last write left in the Frequency Control: the clamped
\* frequency_ms of the last control frame, or the initial value.
Written ==
    IF lastFreq = None THEN DefaultSleepMs ELSE ClampTo(lastFreq[1], 10, 1000)

\* The generators the Frequency Control paces.
PacedGenerators == {"price", "book", "trade"}

\* C26: a price, book or trade generator that starts a sleep derives it
\* from the value the last write left in the Frequency Control, and a sleep
\* under way keeps its interval; so after a write only the sleep that was
\* under way is derived from the old value.
C26_StaleForOneSleep ==
    [][\A g \in PacedGenerators :
          /\ (gen[g].pc = "run" /\ gen'[g].pc = "sleep")
                => gen'[g].interval = Interval(g, Written)
          /\ (gen[g].pc = "sleep" /\ gen'[g].pc = "sleep")
                => gen'[g].interval = gen[g].interval]_vars

\* The control was written to 500 while the trade generator slept the
\* interval of the initial value.
C26_Witness ==
    /\ lastFreq = Some(500)
    /\ gen["trade"].pc = "sleep"
    /\ gen["trade"].interval = Interval("trade", DefaultSleepMs)
    /\ gen["trade"].interval # Interval("trade", sleep_ms)

\* The sleep the specification gives generator g for control value f.
SleepFor(g, f) ==
    CASE g = "price" -> IF f >= 10 THEN f ELSE 10
      [] g = "book"  -> IF 2 * f >= 50 THEN 2 * f ELSE 50
      [] g = "trade" -> IF 3 * f >= 50 THEN 3 * f ELSE 50

\* What the interval operators give over the whole range of the control.
IntervalLaw ==
    \A f \in 10..1000 :
        /\ \A g \in PacedGenerators : Interval(g, f) = SleepFor(g, f)
        /\ PriceInterval(f) <= BookInterval(f)
        /\ BookInterval(f) <= TradeInterval(f)
        /\ PriceInterval(f) >= 10
        /\ BookInterval(f) >= 50
        /\ TradeInterval(f) >= 50
        /\ 3 * f <= 3000

\* C27: with any value f of 10..1000 in the Frequency Control, a generator
\* that sleeps sleeps max(f, 10), max(2f, 50) or max(3f, 50) ms; the price
\* interval is at most the book interval, which is at most the trade
\* interval; each is at least its floor; and the largest product, 3f, is at
\* most 3000, far inside u64.
C27_IntervalsOrderedAndFloored ==
    /\ sleep_ms \in 10..1000
    /\ \A g \in PacedGenerators :
          gen[g].pc = "sleep" => gen[g].interval = SleepFor(g, sleep_ms)
    /\ IntervalLaw

\* The control holds its lowest value and the trade generator sleeps its
\* floor, which 3f does not reach.
C27_Witness ==
    /\ sleep_ms = 10
    /\ gen["trade"].pc = "sleep"
    /\ gen["trade"].interval = 50
    /\ 3 * sleep_ms < 50

TradeJsonFrames ==
    {f \in UpstreamFrames("trades") : f.kind = "text" /\ f.body.json}

\* A JSON value that is an object with all of s, p, q and m readable.
CompleteTrade(v) ==
    /\ v.t = "obj"
    /\ v.obj.s.t = "str"
    /\ StrF64(v.obj.p) # None
    /\ StrF64(v.obj.q) # None
    /\ v.obj.m.t = "bool"

\* The one place the specification lets a trade be read from: the member
\* data when the payload has one, else the payload.
TradePlace(f) == IF f.body.data # Missing THEN f.body.data ELSE Obj(f.body.top)

\* C29: the trade adapter reads a trade from the member data when the
\* payload has one and from the payload itself otherwise: a frame whose
\* place is complete publishes the trade of that place, and a frame whose
\* place is not is dropped, also when the payload around an incomplete
\* member data holds a complete trade of its own.
C29_EnvelopeOrFlat ==
    adapter["trades"].pc = "streaming" =>
        \A f \in TradeJsonFrames :
            IF CompleteTrade(TradePlace(f))
            THEN tx.tail < MaxLivePublished =>
                    ENABLED (/\ AdapterRead("trades", f)
                             /\ Len(published') = Len(published) + 1
                             /\ PublishedNow = TradeOf(TradePlace(f))[1])
            ELSE ENABLED (/\ AdapterRead("trades", f)
                          /\ published' = published
                          /\ tx' = tx)

\* A payload whose member data lacks the quantity, around fields that make
\* a complete trade.
IncompleteEnvelope ==
    [kind |-> "text",
     body |-> [json |-> TRUE, top |-> OuterTrade,
               data |-> Obj([OuterTrade EXCEPT !.q = Missing])]]

\* The trade adapter has published a trade and is streaming, where the
\* frame with the incomplete member data can arrive and publishes nothing.
C29_Witness ==
    /\ adapter["trades"].pc = "streaming"
    /\ \E i \in 1..Len(published) : published[i].type = "trade"
    /\ tx.tail < MaxLivePublished
    /\ IncompleteEnvelope \in TradeJsonFrames
    /\ ~CompleteTrade(TradePlace(IncompleteEnvelope))
    /\ CompleteTrade(Obj(IncompleteEnvelope.body.top))
    /\ ENABLED (AdapterRead("trades", IncompleteEnvelope) /\ published' = published)

\* The keep-alive tasks of adapter a that have not exited.
KeepAliveTasks(a) == {i \in KeepAliveSlots : pingers[a][i] # "free"}

\* C30: a connection that is established spawns one keep-alive task and no
\* other step spawns one; the one task of the connection being read is the
\* only one alive; a task whose ping fails exits in that step; and a task
\* on a connection that has ended and fails its pings exits in the end, so
\* the tasks of dead connections are cleared however often the adapter
\* reconnects.
C30_KeepAliveTasksExit ==
    /\ [][\A a \in Adapters :
             /\ (adapter[a].pc = "connecting" /\ adapter'[a].pc = "streaming")
                   => /\ Cardinality(KeepAliveTasks(a)') = Cardinality(KeepAliveTasks(a)) + 1
                      /\ \E i \in KeepAliveSlots :
                            /\ pingers[a][i] = "free" /\ pingers'[a][i] = "alive"
                            /\ \A j \in KeepAliveSlots \ {i} :
                                  pingers'[a][j] = pingers[a][j]
             /\ ~(adapter[a].pc = "connecting" /\ adapter'[a].pc = "streaming")
                   => KeepAliveTasks(a)' \subseteq KeepAliveTasks(a)
             /\ \A i \in KeepAliveSlots :
                   PingTick(a, i, FALSE) => pingers'[a][i] = "free"]_vars
    /\ [](\A a \in Adapters :
             /\ Cardinality({i \in KeepAliveSlots : pingers[a][i] = "alive"}) <= 1
             /\ adapter[a].pc # "streaming" =>
                   \A i \in KeepAliveSlots : pingers[a][i] # "alive")
    /\ \A a \in Adapters : \A i \in KeepAliveSlots :
          (pingers[a][i] = "dead") ~> (pingers[a][i] = "free")

\* An adapter streams on a new connection, with its keep-alive task, while
\* the task of an earlier, dead connection has not yet exited.
C30_Witness ==
    \E a \in Adapters : \E i, j \in KeepAliveSlots :
        /\ adapter[a].pc = "streaming"
        /\ pingers[a][i] = "alive"
        /\ pingers[a][j] = "dead"

\* The step of adapter a in which its connection fails: the handshake
\* returns an error, or the read loop ends on a close frame, a read error
\* or the end of the stream.
UpstreamFails(a) ==
    \/ adapter[a].pc = "connecting" /\ adapter'[a].pc = AfterError
    \/ adapter[a].pc = "streaming" /\ adapter'[a].pc # "streaming"

\* C31: a failure of an upstream connection (failed handshake, close
\* frame, read error, end of stream) publishes nothing to the hub and
\* leaves every session as it was, and a session that is open with an event
\* of the hub to read forwards it whatever the adapters are doing.
C31_UpstreamFailureNotSurfaced ==
    /\ [][\A a \in Adapters :
             UpstreamFails(a) => UNCHANGED <<tx, published, sessions>>]_vars
    /\ [](\A s \in Sessions :
             (IsOpen(s) /\ Recv(tx, sessions[s].next).res = "Ok")
                => ENABLED (HubBranch(s) /\ IsOpen(s)'
                            /\ Len(sessions'[s].sent) = Len(sessions[s].sent) + 1))

\* An adapter is in the delay after a failure while the session, which has
\* forwarded an event of the system generator, has another to forward.
C31_Witness ==
    \E a \in Adapters :
        /\ adapter[a].pc = "delay"
        /\ IsOpen(Reader)
        /\ \E i \in 1..Len(sessions[Reader].sent) :
              sessions[Reader].sent[i].val.type = "system"
        /\ Recv(tx, sessions[Reader].next).res = "Ok"

\* The sessions that hold a cursor on the hub.
SessionCursors == {s \in Sessions : sessions[s].rx}

\* C32: a session holds a cursor exactly while it is live, so the cursors
\* of sessions are as many as the live sessions; a session that has not
\* started or has terminated holds none, and whatever a session has
\* forwarded was published at or after the position its cursor was created
\* at, so the cursor exists before the first forward.
C32_OneCursorPerLiveSession ==
    /\ Cardinality(SessionCursors) = Cardinality({s \in Sessions : IsOpen(s)})
    /\ \A s \in Sessions :
          /\ sessions[s].rx <=> IsOpen(s)
          /\ sessions[s].sent # <<>> =>
                /\ sessions[s].rx
                /\ sessions[s].sent[1].pos >= sessions[s].subAt

\* One session has terminated and holds no cursor while the other, which
\* connected after events were published, holds its own and has forwarded.
C32_Witness ==
    \E s, t \in Sessions :
        /\ sessions[s].status = "closed" /\ ~sessions[s].rx
        /\ IsOpen(t) /\ sessions[t].rx
        /\ sessions[t].subAt > 0
        /\ sessions[t].sent # <<>>
        /\ SessionCursors = {t}

\* The events of one cycle of a generator, as its loop body names them:
\* one per symbol of the price and book lists, one trade.
CycleLength(g) ==
    CASE g = "price" -> Len(PriceSymbols)
      [] g = "book"  -> Len(BookSymbols)
      [] g = "trade" -> 1

\* The tag of the events of a generator.
TypeOf(g) == IF g = "system" THEN "system" ELSE g

\* The symbol list of a generator.
SymbolsOf(g) ==
    CASE g = "price" -> PriceSymbols
      [] g = "book"  -> BookSymbols
      [] g = "trade" -> TradeSymbols

\* C33: a cycle of the price generator publishes one Price event per
\* symbol in the order of its list and a cycle of the book generator one
\* BookDepth event per book symbol in order, a cycle of the trade generator
\* one Trade event of a symbol of its list; a generator starts its sleep
\* only after the whole cycle is published and publishes nothing while it
\* sleeps, one sleep is followed by the first event of the next cycle, and
\* no generator leaves its loop: it is always in its body or in its sleep,
\* and a sleep always ends.
C33_OneCyclePerSleep ==
    /\ [][published' # published =>
             /\ Len(published') = Len(published) + 1
             /\ SubSeq(published', 1, Len(published)) = published]_vars
    /\ [][\A g \in PacedGenerators :
             /\ (/\ Len(published') = Len(published) + 1
                 /\ published'[Len(published')].type = TypeOf(g)) =>
                   /\ gen[g].pc = "run" /\ gen'[g].pc = "run"
                   /\ gen[g].idx <= CycleLength(g)
                   /\ gen'[g].idx = gen[g].idx + 1
                   /\ IF g = "trade"
                      THEN published'[Len(published')].symbol
                              \in {TradeSymbols[i] : i \in 1..Len(TradeSymbols)}
                      ELSE published'[Len(published')].symbol
                              = SymbolsOf(g)[gen[g].idx]
             /\ (gen[g].pc = "run" /\ gen'[g].pc = "sleep") =>
                   /\ gen[g].idx = CycleLength(g) + 1
                   /\ Len(published) % CycleLength(g) = 0
                   /\ published' = published
             /\ (gen[g].pc = "sleep" /\ gen'[g] # gen[g]) =>
                   /\ gen'[g].pc = "run" /\ gen'[g].idx = 1
                   /\ published' = published]_vars
    /\ [](\A g \in PacedGenerators :
             /\ gen[g].pc \in {"run", "sleep"}
             /\ Solo(g) =>
                   \A i \in 1..Len(published) :
                       /\ published[i].type = TypeOf(g)
                       /\ g # "trade" =>
                             published[i].symbol =
                                SymbolsOf(g)[((i - 1) % CycleLength(g)) + 1])
    /\ \A g \in PacedGenerators :
          (gen[g].pc = "sleep") ~> (gen[g].pc = "run" /\ gen[g].idx = 1)

\* The price generator sleeps after a whole cycle, one event per symbol in
\* the order of its list.
C33_Witness ==
    /\ gen["price"].pc = "sleep"
    /\ Len(published) = Len(PriceSymbols)
    /\ \A i \in 1..Len(PriceSymbols) :
          published[i] = [type |-> "price", symbol |-> PriceSymbols[i]]

\* C34: the page has one WebSocket connection, the one its connect effect
\* opened first, after any frames and any clicks of Reset All Metrics.
C34_SingleConnection == client.ws = 1

\* C38: every price series holds at most sample_max entries and the trade
\* list at most its hundred, in every state of the page, whatever frames
\* arrived and however the Sample Window was changed.
C38_HistoriesBounded ==
    /\ \A y \in ClientSymbols : client.prices[y] <= client.sample_max
    /\ client.trades <= TradesMax

\* The producers that have run: the generators that have left the start
\* of their first cycle and the adapters that have left their start or
\* have a keep-alive task.
RunGenerators ==
    {g \in Generators : gen[g] # [pc |-> "run", idx |-> 1, interval |-> 0]}

RunAdapters ==
    {a \in Adapters : adapter[a].pc \notin {"off", "connecting"}
                         \/ FreeSlots(a) # KeepAliveSlots}

\* The event types a mode can publish.
TypesOfMode ==
    IF use_live_data THEN {"price", "trade", "system"}
    ELSE {"price", "book", "trade", "system"}

\* C35: the mode never changes after the start.  Without live data only
\* the four generators produce: no adapter ever connects, and every step
\* that publishes is a send of a generator.  With live data the producers
\* are one ticker adapter for each of the three upstream symbols, the trade
\* adapter and the system generator: the price, book and trade generators
\* never run, a price event is published by a ticker adapter, a trade event
\* by the trade adapter, a system event by the system generator, and no
\* book event is ever published.
C35_ModeSelectsProducers ==
    /\ [][use_live_data' = use_live_data]_vars
    /\ [](/\ Cardinality(Adapters \ {"trades"}) = Len(TickerSymbols)
          /\ Len(TickerSymbols) = 3
          /\ \A i \in 1..Len(published) : published[i].type \in TypesOfMode
          /\ ~use_live_data => RunAdapters = {}
          /\ use_live_data => RunGenerators \subseteq {"system"})
    /\ [][Len(published') = Len(published) + 1 =>
             LET ev == published'[Len(published')]
             IN  IF ~use_live_data \/ ev.type = "system"
                 THEN /\ gen'[IF ev.type = "book" \/ ev.type = "price"
                                  \/ ev.type = "trade" THEN ev.type
                              ELSE "system"].idx
                            = gen[IF ev.type = "book" \/ ev.type = "price"
                                      \/ ev.type = "trade" THEN ev.type
                                  ELSE "system"].idx + 1
                      /\ adapter' = adapter
                 ELSE /\ gen' = gen
                      /\ \E a \in Adapters :
                            /\ adapter[a].pc = "streaming"
                            /\ (ev.type = "trade") <=> (a = "trades")]_vars

\* With live data a ticker adapter, the trade adapter and the system
\* generator have each published.
C35_Witness ==
    /\ use_live_data
    /\ \E i, j, k \in 1..Len(published) :
          /\ published[i].type = "price"
          /\ published[j].type = "trade"
          /\ published[k].type = "system"

\* A frame waits on the socket of session s.
FramePending(s) == IsOpen(s) /\ sessions[s].inbox # None

\* An event of the hub waits for the cursor of session s.
EventPending(s) == IsOpen(s) /\ Recv(tx, sessions[s].next).res = "Ok"

\* C36: with a selection that is fair between the two branches neither
\* duty of a session starves the other.  While a frame waits on the socket
\* and an event waits in the hub both branches can be taken; a frame that
\* waits is taken from the socket, unless the session ends first, and when
\* it is a control frame the step that takes it stores the clamp of its
\* value in the Frequency Control; an event that waits is passed by the
\* cursor, forwarded to the socket by that step unless the session ends.
C36_NeitherDutyStarves ==
    /\ [](\A s \in {Reader} :
             /\ FramePending(s) => ENABLED (Select(s, "socket") /\ SocketBranchPending(s))
             /\ EventPending(s) => ENABLED (Select(s, "hub") /\ HubBranch(s)))
    /\ [][\A s \in {Reader} : \A f \in Frames :
             (/\ sessions[s].inbox = Some(f) /\ sessions'[s].inbox = None
              /\ IsOpen(s)' /\ ControlOf(f) # None)
                => /\ sleep_ms' = ClampTo(ControlOf(f)[1], 10, 1000)
                   /\ lastFreq' = ControlOf(f)]_vars
    /\ [][\A s \in {Reader} :
             (IsOpen(s) /\ IsOpen(s)' /\ sessions'[s].next # sessions[s].next)
                => /\ sessions'[s].next = sessions[s].next + 1
                   /\ sessions'[s].sent =
                         Append(sessions[s].sent,
                                [pos |-> sessions[s].next,
                                 val |-> published[sessions[s].next + 1]])]_vars
    /\ FramePending(Reader) ~> (~IsOpen(Reader) \/ sessions[Reader].inbox = None)
    /\ \A n \in 0..MaxPublished :
          (EventPending(Reader) /\ sessions[Reader].next = n)
             ~> (~IsOpen(Reader) \/ sessions[Reader].next > n)

\* A control frame waits on the socket while an event of the hub waits for
\* the cursor of the same session, which has already forwarded one.
C36_Witness ==
    /\ EventPending(Reader)
    /\ \E f \in Frames :
          /\ sessions[Reader].inbox = Some(f)
          /\ ControlOf(f) # None
    /\ sessions[Reader].sent # <<>>

\* C37: while a session exists it holds a Sender of the hub, so the hub has
\* a Sender and is not closed; a receive of its cursor yields an event,
\* nothing yet, or lag; and every end of a session is the step of its own
\* handler on a lagged cursor, on a failed send of an event it received,
\* or on a close frame or the end of its socket: a session with none of
\* these goes on.
C37_EndsOnLagOrTransportOnly ==
    /\ [](\A s \in Sessions :
             IsOpen(s) =>
                /\ s \in SessionSenders
                /\ Recv(tx, sessions[s].next).res \in {"Empty", "Ok", "Lagged"})
    /\ [][\A s \in Sessions :
             Terminates(s) =>
                \/ /\ sessions'[s].why = "lagged"
                   /\ Recv(tx, sessions[s].next).res = "Lagged"
                \/ /\ sessions'[s].why = "send_failed"
                   /\ Recv(tx, sessions[s].next).res = "Ok"
                \/ /\ sessions'[s].why = "closed"
                   /\ \E f \in Frames :
                         f.kind \in {"close", "none"} /\ SocketBranch(s, f)]_vars

\* A session has forwarded every event published in the run and is open,
\* after the other ended on a failed send.
C37_Witness ==
    \E s, t \in Sessions :
        /\ IsOpen(s)
        /\ Len(sessions[s].sent) = MaxPublished
        /\ sessions[t].status = "closed" /\ sessions[t].why = "send_failed"

\* What decode is to return for a signal and data: nothing for data of
\* fewer than two bytes or a signal whose id is neither ENGINE_RPM nor
\* VEHICLE_SPEED, and else the big-endian value of the first two bytes
\* times the scale of the signal plus its offset.
DecodeSpecified(signal, data) ==
    IF Len(data) < 2 \/ signal.can_id \notin {ENGINE_RPM, VEHICLE_SPEED}
    THEN None
    ELSE Some((data[1] * 256 + data[2]) * signal.scale + signal.offset)

\* C39: a call of decode returns nothing for empty data, data of one byte
\* or a signal of another id, and otherwise the big-endian 16-bit value of
\* the first two bytes converted with the scale and offset of the signal.
C39_DecodeAsSpecified ==
    can.pc = "done" => can.result = DecodeSpecified(can.signal, can.data)
====
